---- MODULE Spec2Model ----
(***************************************************************************)
(* A small-step model of the tree-walking evaluator of the Monkey          *)
(* interpreter (package evaluator, package object).  Eval is recursive in  *)
(* the source; here every pending Go activation is a record on `stack`,    *)
(* and one action models one handler (or one resumption of a handler after *)
(* a recursive Eval call returned).                                        *)
(***************************************************************************)
EXTENDS Integers, Sequences, FiniteSets, TLC

VARIABLES
    program,   \* the *ast.Program handed to Eval
    heap,      \* the allocated object.Environment values, by address 1..Len(heap)
    stack,     \* pending activations of the evaluator functions, innermost last
    pc,        \* "eval": Eval is being called on `node` in `env`;
               \* "ret": `val` is being returned to the innermost activation;
               \* "done": the outermost Eval returned `val`;
               \* "panic": the Go runtime aborted; "overflow": stack bound reached
    node,      \* the ast.Node argument of the current Eval call
    env,       \* the *object.Environment argument of the current Eval call
    val,       \* the object.Object being returned
    last       \* history: the handler activation that returned most recently

vars == <<program, heap, stack, pc, node, env, val, last>>

-----------------------------------------------------------------------------
(* Bounds of the model *)

MaxInt == 1        \* integer literals of generated programs are 0..MaxInt
MaxStmts == 3      \* generated statement lists have at most this many statements
MaxStack == 12     \* pending activations the host stack has room for
MaxSets == 3       \* Set calls made on the frames of an environment chain

-----------------------------------------------------------------------------
(* package ast: the node variants Eval dispatches on *)

NoNode == [node |-> "nil"]
IntegerLiteral(v) == [node |-> "IntegerLiteral", Value |-> v]
Boolean(b) == [node |-> "Boolean", Value |-> b]
StringLiteral(s) == [node |-> "StringLiteral", Value |-> s]
Identifier(n) == [node |-> "Identifier", Value |-> n]
PrefixExpression(op, right) ==
    [node |-> "PrefixExpression", Operator |-> op, Right |-> right]
InfixExpression(left, op, right) ==
    [node |-> "InfixExpression", Left |-> left, Operator |-> op, Right |-> right]
IfExpression(cond, cons, alt) ==
    [node |-> "IfExpression", Condition |-> cond, Consequence |-> cons,
     Alternative |-> alt]
FunctionLiteral(params, body) ==
    [node |-> "FunctionLiteral", Parameters |-> params, Body |-> body]
CallExpression(fn, args) ==
    [node |-> "CallExpression", Function |-> fn, Arguments |-> args]
LetStatement(name, value) ==
    [node |-> "LetStatement", Name |-> name, Value |-> value]
ReturnStatement(value) == [node |-> "ReturnStatement", ReturnValue |-> value]
ExpressionStatement(e) == [node |-> "ExpressionStatement", Expression |-> e]
BlockStatement(stmts) == [node |-> "BlockStatement", Statements |-> stmts]
Program(stmts) == [node |-> "Program", Statements |-> stmts]

-----------------------------------------------------------------------------
(* package object: the runtime values.  `addr` models pointer identity of  *)
(* the objects the evaluator compares by identity.                         *)

Nil == [type |-> "nil"]                    \* the nil object.Object interface
NULL == [type |-> "NULL", addr |-> "NULL"]
TrueObj == [type |-> "BOOLEAN", Value |-> TRUE, addr |-> "TRUE"]
FalseObj == [type |-> "BOOLEAN", Value |-> FALSE, addr |-> "FALSE"]
\* Go's int64 is its 64-bit two's complement pattern in four 16-bit limbs,
\* the lowest first.  Int64Of is the pattern of an integer within 32 bits.
Int64Of(v) ==
    <<v % 65536, (v \div 65536) % 65536,
      IF v < 0 THEN 65535 ELSE 0, IF v < 0 THEN 65535 ELSE 0>>

IntegerObj(v) == [type |-> "INTEGER", Value |-> v]
StringObj(s) == [type |-> "STRING", Value |-> s]
ReturnValueObj(v) == [type |-> "RETURN_VALUE", Value |-> v]
ErrorObj(m) == [type |-> "ERROR", Message |-> m]
FunctionObj(params, body, e) ==
    [type |-> "FUNCTION", Parameters |-> params, Body |-> body, Environment |-> e]

\* (*Error).Inspect
InspectError(error) == "ERROR: " \o error.Message

\* The outcome of a step in which the Go runtime panics (not an Object).
Panic(why) == [type |-> "panic", why |-> why]
IsPanic(o) == o.type = "panic"

\* Identity of two interface values: same dynamic type and same pointer.
SameObject(a, b) == a.type = b.type /\ a = b

EmptyStore == [n \in {} |-> Nil]
NewEnvironment == [store |-> EmptyStore, outer |-> 0]
NewEnclosingEnvironment(outer) == [store |-> EmptyStore, outer |-> outer]

RECURSIVE Get(_, _, _)
Get(h, e, name) ==
    IF name \in DOMAIN h[e].store
    THEN [object |-> h[e].store[name], ok |-> TRUE]
    ELSE IF h[e].outer # 0
         THEN Get(h, h[e].outer, name)
         ELSE [object |-> Nil, ok |-> FALSE]

\* A slip: Set as an assignment, which writes to the outer frame when that
\* is where the name is bound.
SetAssigns(h, e, name, object) ==
    IF /\ name \notin DOMAIN h[e].store
       /\ h[e].outer # 0
       /\ name \in DOMAIN h[h[e].outer].store
    THEN [h EXCEPT ![h[e].outer].store = (name :> object) @@ @]
    ELSE [h EXCEPT ![e].store = (name :> object) @@ @]

Set(h, e, name, object) ==
    [h EXCEPT ![e].store = (name :> object) @@ @]

-----------------------------------------------------------------------------
(* package evaluator: the helpers that do not call Eval *)

isError(target) == target.type = "ERROR"

newError(message) == ErrorObj(message)

\* A slip: a Boolean is allocated for the result.
convertNativeBooleanToObjectAllocates(value) ==
    [type |-> "BOOLEAN", Value |-> value, addr |-> "new"]

convertNativeBooleanToObject(value) == IF value THEN TrueObj ELSE FalseObj

\* The greatest and the least int64.
MaxInt64 == <<65535, 65535, 65535, 32767>>
MinInt64 == <<0, 0, 0, 32768>>

\* The arithmetic and the comparisons of int64, on the patterns: + - *
\* keep the low 64 bits of the result, / truncates the quotient toward zero
\* and keeps its low 64 bits.  The divisor is not zero.
Int64(operator, a, b) ==
    LET base == 65536
        zero == <<0, 0, 0, 0>>
        add(x, y) ==
            LET s1 == x[1] + y[1]
                s2 == x[2] + y[2] + (s1 \div base)
                s3 == x[3] + y[3] + (s2 \div base)
                s4 == x[4] + y[4] + (s3 \div base)
            IN  <<s1 % base, s2 % base, s3 % base, s4 % base>>
        neg(x) == add(<<base - 1 - x[1], base - 1 - x[2], base - 1 - x[3],
                        base - 1 - x[4]>>, <<1, 0, 0, 0>>)
        negative(x) == x[4] >= base \div 2
        abs(x) == IF negative(x) THEN neg(x) ELSE x
        below(x, y) ==
            \E i \in 1..4 : x[i] < y[i] /\ \A j \in (i + 1)..4 : x[j] = y[j]
        less(x, y) ==
            IF negative(x) # negative(y) THEN negative(x) ELSE below(x, y)
        bit(x, i) == (x[(i \div 16) + 1] \div (2 ^ (i % 16))) % 2
        \* The loops over the 64 bits, the highest first: n more bits from
        \* the state st, whose i is the next bit.  The state half way is a
        \* value before the second half starts from it.
        RECURSIVE mul(_, _, _, _)
        mul(x, y, st, n) ==
            IF n = 1
            THEN [p |-> add(add(st.p, st.p), IF bit(y, st.i) = 1 THEN x ELSE zero),
                  i |-> st.i - 1]
            ELSE CHOOSE out \in {mul(x, y, half, n \div 2) :
                                 half \in {mul(x, y, st, n \div 2)}} : TRUE
        RECURSIVE div(_, _, _, _)
        div(x, y, st, n) ==
            IF n = 1
            THEN CHOOSE out \in
                     {IF below(r, y)
                      THEN [q |-> add(st.q, st.q), r |-> r, i |-> st.i - 1]
                      ELSE [q |-> add(add(st.q, st.q), <<1, 0, 0, 0>>),
                            r |-> add(r, neg(y)), i |-> st.i - 1] :
                      r \in {add(add(st.r, st.r), <<bit(x, st.i), 0, 0, 0>>)}} : TRUE
            ELSE CHOOSE out \in {div(x, y, half, n \div 2) :
                                 half \in {div(x, y, st, n \div 2)}} : TRUE
        quo(x, y) ==
            LET q == div(abs(x), abs(y), [q |-> zero, r |-> zero, i |-> 63], 64).q
            IN  IF negative(x) = negative(y) THEN q ELSE neg(q)
        apply(x, y) ==
            CASE operator = "+" -> add(x, y)
              [] operator = "-" -> add(x, neg(y))
              [] operator = "*" -> mul(x, y, [p |-> zero, i |-> 63], 64).p
              [] operator = "/" -> quo(x, y)
              [] operator = "<" -> less(x, y)
              [] operator = "<=" -> ~less(y, x)
              [] operator = ">" -> less(y, x)
              [] operator = ">=" -> ~less(x, y)
              [] operator = "==" -> x = y
              [] operator = "!=" -> x # y
    IN  CHOOSE out \in {apply(x, y) : x \in {a}, y \in {b}} : TRUE

\* A division that rounds the quotient down.
QuoFloor(a, b) ==
    LET q == Int64("/", a, b)
    IN  IF Int64("*", q, b) # a /\ (Int64("<", a, Int64Of(0)) # Int64("<", b, Int64Of(0)))
        THEN Int64("-", q, Int64Of(1))
        ELSE q

\* Go's integer division: the quotient truncated toward zero.
Quo(a, b) == Int64("/", a, b)

\* obj.Type() on an operand: a nil interface has no method to call.
HasNil(left, right) == left = Nil \/ right = Nil

\* A slip: the case of `-` adds (the line of `+` copied and not changed).
evalInfixIntegerOperatorMinusAdds(operator, left, right) ==
    IF ~(left.type = "INTEGER" /\ right.type = "INTEGER")
    THEN IF HasNil(left, right)
         THEN Panic("nil pointer dereference")
         ELSE newError("Type mismatch: " \o left.type \o " " \o operator
                       \o " " \o right.type)
    ELSE LET leftValue == left.Value
             rightValue == right.Value
         IN  CASE operator = "+" -> IntegerObj(Int64("+", leftValue, rightValue))
               [] operator = "-" -> IntegerObj(Int64("+", leftValue, rightValue))
               [] operator = "*" -> IntegerObj(Int64("*", leftValue, rightValue))
               [] operator = "/" ->
                    IF rightValue = Int64Of(0)
                    THEN Panic("integer divide by zero")
                    ELSE IntegerObj(Quo(leftValue, rightValue))
               [] operator = "<" ->
                    convertNativeBooleanToObject(Int64("<", leftValue, rightValue))
               [] operator = "<=" ->
                    convertNativeBooleanToObject(Int64("<=", leftValue, rightValue))
               [] operator = ">" ->
                    convertNativeBooleanToObject(Int64(">", leftValue, rightValue))
               [] operator = ">=" ->
                    convertNativeBooleanToObject(Int64(">=", leftValue, rightValue))
               [] operator = "==" ->
                    convertNativeBooleanToObject(Int64("==", leftValue, rightValue))
               [] operator = "!=" ->
                    convertNativeBooleanToObject(Int64("!=", leftValue, rightValue))
               [] OTHER -> newError("Unsupported operator: " \o left.type \o " "
                                    \o operator \o " " \o right.type)

evalInfixIntegerOperator(operator, left, right) ==
    IF ~(left.type = "INTEGER" /\ right.type = "INTEGER")
    THEN IF HasNil(left, right)
         THEN Panic("nil pointer dereference")
         ELSE newError("Type mismatch: " \o left.type \o " " \o operator
                       \o " " \o right.type)
    ELSE LET leftValue == left.Value
             rightValue == right.Value
         IN  CASE operator = "+" -> IntegerObj(Int64("+", leftValue, rightValue))
               [] operator = "-" -> IntegerObj(Int64("-", leftValue, rightValue))
               [] operator = "*" -> IntegerObj(Int64("*", leftValue, rightValue))
               [] operator = "/" ->
                    IF rightValue = Int64Of(0)
                    THEN Panic("integer divide by zero")
                    ELSE IntegerObj(Quo(leftValue, rightValue))
               [] operator = "<" ->
                    convertNativeBooleanToObject(Int64("<", leftValue, rightValue))
               [] operator = "<=" ->
                    convertNativeBooleanToObject(Int64("<=", leftValue, rightValue))
               [] operator = ">" ->
                    convertNativeBooleanToObject(Int64(">", leftValue, rightValue))
               [] operator = ">=" ->
                    convertNativeBooleanToObject(Int64(">=", leftValue, rightValue))
               [] operator = "==" ->
                    convertNativeBooleanToObject(Int64("==", leftValue, rightValue))
               [] operator = "!=" ->
                    convertNativeBooleanToObject(Int64("!=", leftValue, rightValue))
               [] OTHER -> newError("Unsupported operator: " \o left.type \o " "
                                    \o operator \o " " \o right.type)

evalInfixBooleanOperator(operator, left, right) ==
    IF ~(left.type = "BOOLEAN" /\ right.type = "BOOLEAN")
    THEN IF HasNil(left, right)
         THEN Panic("nil pointer dereference")
         ELSE newError("Type mismatch: " \o left.type \o " " \o operator
                       \o " " \o right.type)
    ELSE LET leftValue == left.Value
             rightValue == right.Value
         IN  CASE operator = "==" -> convertNativeBooleanToObject(leftValue = rightValue)
               [] operator = "!=" -> convertNativeBooleanToObject(leftValue # rightValue)
               [] OTHER -> newError("Unsupported operator: " \o left.type \o " "
                                    \o operator \o " " \o right.type)

\* A slip: the strings are joined right operand first.
evalInfixStringOperatorReversed(operator, left, right) ==
    IF ~(left.type = "STRING" /\ right.type = "STRING")
    THEN IF HasNil(left, right)
         THEN Panic("nil pointer dereference")
         ELSE newError("Type mismatch: " \o left.type \o " " \o operator
                       \o " " \o right.type)
    ELSE CASE operator = "+" -> StringObj(right.Value \o left.Value)
           [] OTHER -> newError("Unsupported operator: " \o left.type \o " "
                                \o operator \o " " \o right.type)

evalInfixStringOperator(operator, left, right) ==
    IF ~(left.type = "STRING" /\ right.type = "STRING")
    THEN IF HasNil(left, right)
         THEN Panic("nil pointer dereference")
         ELSE newError("Type mismatch: " \o left.type \o " " \o operator
                       \o " " \o right.type)
    ELSE CASE operator = "+" -> StringObj(left.Value \o right.Value)
           [] OTHER -> newError("Unsupported operator: " \o left.type \o " "
                                \o operator \o " " \o right.type)

\* A slip: `-` on a value that is not an Integer yields NULL, as it did
\* before the evaluator had Error objects.
evalMinusOperatorExpressionOrNull(right) ==
    IF right.type = "INTEGER"
    THEN IntegerObj(Int64("-", Int64Of(0), right.Value))
    ELSE NULL

evalMinusOperatorExpression(right) ==
    IF right.type = "INTEGER"
    THEN IntegerObj(Int64("-", Int64Of(0), right.Value))
    ELSE IF right = Nil
         THEN Panic("nil pointer dereference")
         ELSE newError("Unsupported operator: - " \o right.type)

evalBangOperatorExpression(target) ==
    CASE SameObject(target, TrueObj) -> FalseObj
      [] SameObject(target, FalseObj) -> TrueObj
      [] SameObject(target, NULL) -> TrueObj
      [] OTHER -> FalseObj


evalPrefixExpressionApply(prefixExpression, right) ==
    IF isError(right)
    THEN right
    ELSE CASE prefixExpression.Operator = "!" -> evalBangOperatorExpression(right)
           [] prefixExpression.Operator = "-" -> evalMinusOperatorExpression(right)
           [] OTHER ->
                IF right = Nil
                THEN Panic("nil pointer dereference")
                ELSE newError("Unsupported operator: " \o prefixExpression.Operator
                              \o " " \o right.type)

\* evalInfixExpression's switch on the type of the left operand.
evalInfixExpressionDispatch(infixExpression, left, right) ==
    CASE left.type = "INTEGER" ->
           evalInfixIntegerOperator(infixExpression.Operator, left, right)
      [] left.type = "BOOLEAN" ->
           evalInfixBooleanOperator(infixExpression.Operator, left, right)
      [] left.type = "STRING" ->
           evalInfixStringOperator(infixExpression.Operator, left, right)
      [] OTHER ->
           IF HasNil(left, right)
           THEN Panic("nil pointer dereference")
           ELSE newError("Unsupported operator: " \o left.type \o " "
                         \o infixExpression.Operator \o " " \o right.type)

\* A slip: the right operand's Error is looked at before the left one's.
evalInfixExpressionApplyRightFirst(infixExpression, left, right) ==
    IF isError(right)
    THEN right
    ELSE IF isError(left)
    THEN left
    ELSE evalInfixExpressionDispatch(infixExpression, left, right)

\* evalInfixExpression once both operands have been evaluated.
evalInfixExpressionApply(infixExpression, left, right) ==
    IF isError(left)
    THEN left
    ELSE IF isError(right)
    THEN right
    ELSE evalInfixExpressionDispatch(infixExpression, left, right)

\* A slip: every value other than FALSE and NULL counts as true.
evalIfExpressionBranchTruthy(ifExpression, condition) ==
    IF ~SameObject(condition, FalseObj) /\ ~SameObject(condition, NULL)
    THEN "Consequence"
    ELSE IF ifExpression.Alternative.node # "nil"
         THEN "Alternative"
         ELSE "none"

\* The branch evalIfExpression evaluates once the condition is known.
evalIfExpressionBranch(ifExpression, condition) ==
    IF SameObject(condition, TrueObj)
    THEN "Consequence"
    ELSE IF ifExpression.Alternative.node # "nil"
         THEN "Alternative"
         ELSE "none"

\* Eval, case *ast.ReturnStatement, once the inner expression is evaluated.
EvalReturnStatementWrap(inner) == ReturnValueObj(inner)

\* A slip: the value is bound without looking for an Error first.
EvalLetStatementBindsError(h, letStatement, environment, value) ==
    [out |-> IF isError(value) THEN value ELSE Nil,
     heap |-> Set(h, environment, letStatement.Name, value)]

\* A slip: the name is bound in a frame of its own, enclosed by the
\* environment.
EvalLetStatementBindInNewFrame(h, letStatement, environment, value) ==
    IF isError(value)
    THEN [out |-> value, heap |-> h]
    ELSE [out |-> Nil,
          heap |-> Append(h, [store |-> (letStatement.Name :> value),
                              outer |-> environment])]

\* Eval, case *ast.LetStatement, once the value is evaluated: the object
\* returned and the heap left behind.
EvalLetStatementBind(h, letStatement, environment, value) ==
    IF isError(value)
    THEN [out |-> value, heap |-> h]
    ELSE [out |-> Nil, heap |-> Set(h, environment, letStatement.Name, value)]

evalFunction(literal, environment) ==
    FunctionObj(literal.Parameters, literal.Body, environment)

\* fmt's %s of the *ast.Identifier: the identifier's String() rendering.
IdentifierString(identifier) == identifier.Value

\* A slip: the name `null` is special only when the environment does not
\* bind it.
evalIdentifierExpressionLookupFirst(h, identifier, environment) ==
    LET got == Get(h, environment, identifier.Value)
    IN  IF got.ok
        THEN got.object
        ELSE IF identifier.Value = "null"
             THEN NULL
             ELSE newError("Identifier not found: " \o IdentifierString(identifier))

\* A slip: an unbound identifier evaluates to NULL instead of an Error.
evalIdentifierExpressionOrNull(h, identifier, environment) ==
    IF identifier.Value = "null"
    THEN NULL
    ELSE LET got == Get(h, environment, identifier.Value)
         IN  IF ~got.ok THEN NULL ELSE got.object

evalIdentifierExpression(h, identifier, environment) ==
    IF identifier.Value = "null"
    THEN NULL
    ELSE LET got == Get(h, environment, identifier.Value)
         IN  IF ~got.ok
             THEN newError("Identifier not found: " \o IdentifierString(identifier))
             ELSE got.object

\* A slip: a ReturnValue is unwrapped but does not end the loop.
evalStatementResultKeepsGoing(result) ==
    IF result.type = "RETURN_VALUE"
    THEN [stop |-> FALSE, out |-> result.Value]
    ELSE IF result.type = "ERROR"
         THEN [stop |-> TRUE, out |-> result]
         ELSE [stop |-> FALSE, out |-> result]

\* The loop body of evalStatement: what it does with a statement's result.
evalStatementResult(result) ==
    IF result.type = "RETURN_VALUE"
    THEN [stop |-> TRUE, out |-> result.Value]
    ELSE IF result.type = "ERROR"
         THEN [stop |-> TRUE, out |-> result]
         ELSE [stop |-> FALSE, out |-> result]

\* A slip: the block unwraps the ReturnValue as the statement list does.
evalBlockStatementResultUnwraps(result) ==
    IF result.type = "RETURN_VALUE"
    THEN [stop |-> TRUE, out |-> result.Value]
    ELSE IF result.type = "ERROR"
         THEN [stop |-> TRUE, out |-> result]
         ELSE [stop |-> FALSE, out |-> result]

\* A slip: the block looks for a ReturnValue only (as the evaluator did
\* before Error objects were added).
evalBlockStatementResultIgnoresError(result) ==
    IF result.type = "RETURN_VALUE"
    THEN [stop |-> TRUE, out |-> result]
    ELSE [stop |-> FALSE, out |-> result]

\* The loop body of evalBlockStatement.
evalBlockStatementResult(result) ==
    IF result.type = "RETURN_VALUE"
    THEN [stop |-> TRUE, out |-> result]
    ELSE IF result.type = "ERROR"
         THEN [stop |-> TRUE, out |-> result]
         ELSE [stop |-> FALSE, out |-> result]

\* evalCallExpression after the callee or an argument has been evaluated:
\* an Error ends the call.
\* A slip: the loop goes on whatever was evaluated.
evalCallExpressionGoesOn(evaluated) == FALSE

evalCallExpressionStops(evaluated) == isError(evaluated)

\* A slip: no frame is allocated, the parameters are bound in the caller's
\* frame and the body is evaluated there.
applyFunctionInCallerFrame(h, function, arguments, environment) ==
    LET bind[i \in 0..Len(arguments)] ==
            IF i = 0
            THEN h
            ELSE Set(bind[i - 1], environment, function.Parameters[i],
                     arguments[i])
    IN  IF Len(arguments) > Len(function.Parameters)
        THEN [panic |-> TRUE, why |-> "index out of range",
              heap |-> h, environment |-> 0]
        ELSE [panic |-> FALSE, why |-> "",
              heap |-> bind[Len(arguments)], environment |-> environment]

\* applyFunction up to its call of Eval on the body: the call frame it
\* allocates and the bindings it makes.
applyFunction(h, function, arguments, environment) ==
    LET enclosingEnvironment == Len(h) + 1
        bind[i \in 0..Len(arguments)] ==
            IF i = 0
            THEN Append(h, NewEnclosingEnvironment(environment))
            ELSE Set(bind[i - 1], enclosingEnvironment,
                     function.Parameters[i], arguments[i])
    IN  IF Len(arguments) > Len(function.Parameters)
        THEN [panic |-> TRUE, why |-> "index out of range",
              heap |-> h, environment |-> 0]
        ELSE [panic |-> FALSE, why |-> "",
              heap |-> bind[Len(arguments)], environment |-> enclosingEnvironment]


-----------------------------------------------------------------------------
(* The evaluator as a state machine *)

Top == stack[Len(stack)]
Popped == SubSeq(stack, 1, Len(stack) - 1)

\* Eval is entered on node n in environment e.
Call(n, e) == pc' = "eval" /\ node' = n /\ env' = e /\ val' = Nil

\* The current activation returns v, or the runtime panics.
Return(v) ==
    /\ pc' = IF IsPanic(v) THEN "panic" ELSE "ret"
    /\ node' = NoNode
    /\ env' = 0
    /\ val' = v

\* Eval's type switch selects the case of node variant `kind`.
Evaluating(kind) == pc = "eval" /\ Len(stack) < MaxStack /\ node.node = kind

\* A handler that called Eval is resumed with the result in `val`.
Resumed(fn) == pc = "ret" /\ stack # <<>> /\ Top.fn = fn

\* Eval, case *ast.Program: evalStatement starts its loop.
EvalProgram ==
    /\ Evaluating("Program")
    /\ IF node.Statements = <<>>
       THEN /\ Return(Nil)
            /\ last' = [fn |-> "evalStatement", statements |-> <<>>,
                        environment |-> env, results |-> <<>>, out |-> Nil]
            /\ UNCHANGED stack
       ELSE /\ stack' = Append(stack, [fn |-> "evalStatement",
                                      statements |-> node.Statements,
                                      environment |-> env, results |-> <<>>])
            /\ Call(node.Statements[1], env)
            /\ UNCHANGED last
    /\ UNCHANGED <<program, heap>>

\* evalStatement receives the result of a statement.
evalStatement ==
    /\ Resumed("evalStatement")
    /\ LET results == Append(Top.results, val)
           r == evalStatementResult(val)
       IN  IF r.stop \/ Len(results) = Len(Top.statements)
           THEN /\ stack' = Popped
                /\ Return(r.out)
                /\ last' = [fn |-> "evalStatement", statements |-> Top.statements,
                            environment |-> Top.environment,
                            results |-> results, out |-> r.out]
           ELSE /\ stack' = [stack EXCEPT ![Len(stack)].results = results]
                /\ Call(Top.statements[Len(results) + 1], Top.environment)
                /\ UNCHANGED last
    /\ UNCHANGED <<program, heap>>

\* Eval, case *ast.ExpressionStatement: return Eval(node.Expression, ...).
EvalExpressionStatement ==
    /\ Evaluating("ExpressionStatement")
    /\ Call(node.Expression, env)
    /\ UNCHANGED <<program, heap, stack, last>>

\* Eval, case *ast.BlockStatement: evalBlockStatement starts its loop.
EvalBlockStatement ==
    /\ Evaluating("BlockStatement")
    /\ IF node.Statements = <<>>
       THEN /\ Return(Nil)
            /\ last' = [fn |-> "evalBlockStatement", statements |-> <<>>,
                        environment |-> env, results |-> <<>>, out |-> Nil]
            /\ UNCHANGED stack
       ELSE /\ stack' = Append(stack, [fn |-> "evalBlockStatement",
                                      statements |-> node.Statements,
                                      environment |-> env, results |-> <<>>])
            /\ Call(node.Statements[1], env)
            /\ UNCHANGED last
    /\ UNCHANGED <<program, heap>>

\* evalBlockStatement receives the result of a statement.
evalBlockStatement ==
    /\ Resumed("evalBlockStatement")
    /\ LET results == Append(Top.results, val)
           r == evalBlockStatementResult(val)
       IN  IF r.stop \/ Len(results) = Len(Top.statements)
           THEN /\ stack' = Popped
                /\ Return(r.out)
                /\ last' = [fn |-> "evalBlockStatement",
                            statements |-> Top.statements,
                            environment |-> Top.environment,
                            results |-> results, out |-> r.out]
           ELSE /\ stack' = [stack EXCEPT ![Len(stack)].results = results]
                /\ Call(Top.statements[Len(results) + 1], Top.environment)
                /\ UNCHANGED last
    /\ UNCHANGED <<program, heap>>

\* Eval, cases *ast.IntegerLiteral, *ast.Boolean and *ast.StringLiteral.
EvalLiteral ==
    /\ \/ Evaluating("IntegerLiteral") /\ Return(IntegerObj(node.Value))
       \/ Evaluating("Boolean") /\ Return(convertNativeBooleanToObject(node.Value))
       \/ Evaluating("StringLiteral") /\ Return(StringObj(node.Value))
    /\ last' = [fn |-> "Eval", node |-> node, out |-> val']
    /\ UNCHANGED <<program, heap, stack>>

\* evalPrefixExpression evaluates its operand.
evalPrefixExpression ==
    /\ Evaluating("PrefixExpression")
    /\ stack' = Append(stack, [fn |-> "evalPrefixExpression", node |-> node,
                              environment |-> env])
    /\ Call(node.Right, env)
    /\ UNCHANGED <<program, heap, last>>

\* evalPrefixExpression applies the operator to the operand's value.
evalPrefixExpressionReturn ==
    /\ Resumed("evalPrefixExpression")
    /\ LET out == evalPrefixExpressionApply(Top.node, val)
       IN  /\ Return(out)
           /\ last' = [fn |-> "evalPrefixExpression", node |-> Top.node,
                       right |-> val, out |-> out]
    /\ stack' = Popped
    /\ UNCHANGED <<program, heap>>

\* evalInfixExpression evaluates its left operand.
evalInfixExpression ==
    /\ Evaluating("InfixExpression")
    /\ stack' = Append(stack, [fn |-> "evalInfixExpression", node |-> node,
                              environment |-> env, at |-> "Left", left |-> Nil])
    /\ Call(node.Left, env)
    /\ UNCHANGED <<program, heap, last>>

\* evalInfixExpression has the left operand's value and evaluates the right
\* operand (before it looks at `left`).
evalInfixExpressionRight ==
    /\ Resumed("evalInfixExpression")
    /\ Top.at = "Left"
    /\ stack' = [stack EXCEPT ![Len(stack)].at = "Right",
                              ![Len(stack)].left = val]
    /\ Call(Top.node.Right, Top.environment)
    /\ UNCHANGED <<program, heap, last>>

\* evalInfixExpression has both operands' values.
evalInfixExpressionReturn ==
    /\ Resumed("evalInfixExpression")
    /\ Top.at = "Right"
    /\ LET out == evalInfixExpressionApply(Top.node, Top.left, val)
       IN  /\ Return(out)
           /\ last' = [fn |-> "evalInfixExpression", node |-> Top.node,
                       left |-> Top.left, right |-> val, out |-> out]
    /\ stack' = Popped
    /\ UNCHANGED <<program, heap>>

\* evalIfExpression evaluates the condition.
evalIfExpression ==
    /\ Evaluating("IfExpression")
    /\ stack' = Append(stack, [fn |-> "evalIfExpression", node |-> node,
                              environment |-> env, at |-> "Condition",
                              condition |-> Nil, branch |-> "none"])
    /\ Call(node.Condition, env)
    /\ UNCHANGED <<program, heap, last>>

\* evalIfExpression has the condition's value and picks a branch.
evalIfExpressionCondition ==
    /\ Resumed("evalIfExpression")
    /\ Top.at = "Condition"
    /\ LET branch == evalIfExpressionBranch(Top.node, val)
       IN  CASE branch = "Consequence" ->
                  /\ stack' = [stack EXCEPT ![Len(stack)].at = "Branch",
                                            ![Len(stack)].condition = val,
                                            ![Len(stack)].branch = branch]
                  /\ Call(Top.node.Consequence, Top.environment)
                  /\ UNCHANGED last
             [] branch = "Alternative" ->
                  /\ stack' = [stack EXCEPT ![Len(stack)].at = "Branch",
                                            ![Len(stack)].condition = val,
                                            ![Len(stack)].branch = branch]
                  /\ Call(Top.node.Alternative, Top.environment)
                  /\ UNCHANGED last
             [] OTHER ->
                  /\ stack' = Popped
                  /\ Return(NULL)
                  /\ last' = [fn |-> "evalIfExpression", node |-> Top.node,
                              condition |-> val, branch |-> branch,
                              out |-> NULL]
    /\ UNCHANGED <<program, heap>>

\* evalIfExpression returns the value of the branch it evaluated.
evalIfExpressionReturn ==
    /\ Resumed("evalIfExpression")
    /\ Top.at = "Branch"
    /\ Return(val)
    /\ last' = [fn |-> "evalIfExpression", node |-> Top.node,
                condition |-> Top.condition, branch |-> Top.branch, out |-> val]
    /\ stack' = Popped
    /\ UNCHANGED <<program, heap>>

\* Eval, case *ast.ReturnStatement, evaluates the returned expression.
EvalReturnStatement ==
    /\ Evaluating("ReturnStatement")
    /\ stack' = Append(stack, [fn |-> "ReturnStatement", node |-> node,
                              environment |-> env])
    /\ Call(node.ReturnValue, env)
    /\ UNCHANGED <<program, heap, last>>

\* Eval, case *ast.ReturnStatement, builds the ReturnValue.
EvalReturnStatementReturn ==
    /\ Resumed("ReturnStatement")
    /\ LET out == EvalReturnStatementWrap(val)
       IN  /\ Return(out)
           /\ last' = [fn |-> "ReturnStatement", node |-> Top.node,
                       inner |-> val, out |-> out]
    /\ stack' = Popped
    /\ UNCHANGED <<program, heap>>

\* Eval, case *ast.LetStatement, evaluates the bound expression.
EvalLetStatement ==
    /\ Evaluating("LetStatement")
    /\ stack' = Append(stack, [fn |-> "LetStatement", node |-> node,
                              environment |-> env])
    /\ Call(node.Value, env)
    /\ UNCHANGED <<program, heap, last>>

\* Eval, case *ast.LetStatement, binds the name (or returns the Error).
EvalLetStatementReturn ==
    /\ Resumed("LetStatement")
    /\ LET r == EvalLetStatementBind(heap, Top.node, Top.environment, val)
       IN  /\ Return(r.out)
           /\ heap' = r.heap
           /\ last' = [fn |-> "LetStatement", node |-> Top.node,
                       environment |-> Top.environment, value |-> val,
                       before |-> heap, out |-> r.out]
    /\ stack' = Popped
    /\ UNCHANGED program

\* Eval, case *ast.FunctionLiteral.
EvalFunctionLiteral ==
    /\ Evaluating("FunctionLiteral")
    /\ Return(evalFunction(node, env))
    /\ last' = [fn |-> "evalFunction", node |-> node, out |-> val']
    /\ UNCHANGED <<program, heap, stack>>

\* Eval, case *ast.Identifier.
EvalIdentifier ==
    /\ Evaluating("Identifier")
    /\ Return(evalIdentifierExpression(heap, node, env))
    /\ last' = [fn |-> "evalIdentifierExpression", node |-> node,
                environment |-> env, out |-> val']
    /\ UNCHANGED <<program, heap, stack>>


\* evalCallExpression evaluates the callee.
evalCallExpression ==
    /\ Evaluating("CallExpression")
    /\ stack' = Append(stack, [fn |-> "evalCallExpression", node |-> node,
                              environment |-> env, at |-> "Function",
                              function |-> Nil, parameters |-> <<>>,
                              enclosingEnvironment |-> 0])
    /\ Call(node.Function, env)
    /\ UNCHANGED <<program, heap, last>>

\* evalCallExpression has every argument's value: the type assertion
\* function.(*object.Function), then applyFunction up to Eval of the body.
evalCallExpressionApply(function, parameters) ==
    IF function.type # "FUNCTION"
    THEN /\ stack' = Popped
         /\ Return(Panic("interface conversion: not *object.Function"))
         /\ UNCHANGED <<heap, last>>
    ELSE LET r == applyFunction(heap, function, parameters, Top.environment)
         IN  IF r.panic
             THEN /\ stack' = Popped
                  /\ Return(Panic(r.why))
                  /\ UNCHANGED <<heap, last>>
             ELSE /\ heap' = r.heap
                  /\ stack' = [stack EXCEPT
                                 ![Len(stack)].at = "Body",
                                 ![Len(stack)].function = function,
                                 ![Len(stack)].parameters = parameters,
                                 ![Len(stack)].enclosingEnvironment = r.environment]
                  /\ Call(function.Body, r.environment)
                  /\ UNCHANGED last

\* evalCallExpression has the callee's value.
evalCallExpressionFunction ==
    /\ Resumed("evalCallExpression")
    /\ Top.at = "Function"
    /\ IF evalCallExpressionStops(val)
       THEN /\ stack' = Popped
            /\ Return(val)
            /\ last' = [fn |-> "evalCallExpression", node |-> Top.node,
                        function |-> val, parameters |-> <<>>, at |-> "Function",
                        out |-> val]
            /\ UNCHANGED heap
       ELSE IF Top.node.Arguments = <<>>
       THEN evalCallExpressionApply(val, <<>>)
       ELSE /\ stack' = [stack EXCEPT ![Len(stack)].at = "Argument",
                                      ![Len(stack)].function = val]
            /\ Call(Top.node.Arguments[1], Top.environment)
            /\ UNCHANGED <<heap, last>>
    /\ UNCHANGED program

\* evalCallExpression has the value of an argument.
evalCallExpressionArgument ==
    /\ Resumed("evalCallExpression")
    /\ Top.at = "Argument"
    /\ LET parameters == Append(Top.parameters, val)
       IN  IF evalCallExpressionStops(val)
           THEN /\ stack' = Popped
                /\ Return(val)
                /\ last' = [fn |-> "evalCallExpression", node |-> Top.node,
                            function |-> Top.function,
                            parameters |-> Top.parameters, at |-> "Argument",
                            out |-> val]
                /\ UNCHANGED heap
           ELSE IF Len(parameters) = Len(Top.node.Arguments)
           THEN evalCallExpressionApply(Top.function, parameters)
           ELSE /\ stack' = [stack EXCEPT ![Len(stack)].parameters = parameters]
                /\ Call(Top.node.Arguments[Len(parameters) + 1], Top.environment)
                /\ UNCHANGED <<heap, last>>
    /\ UNCHANGED program

\* applyFunction returns what Eval of the body returned, and
\* evalCallExpression returns that.
applyFunctionResult(result) == result

evalCallExpressionReturn ==
    /\ Resumed("evalCallExpression")
    /\ Top.at = "Body"
    /\ LET out == applyFunctionResult(val)
       IN  /\ Return(out)
           /\ last' = [fn |-> "evalCallExpression", node |-> Top.node,
                       function |-> Top.function, parameters |-> Top.parameters,
                       at |-> "Body", out |-> out]
    /\ stack' = Popped
    /\ UNCHANGED <<program, heap>>

\* The outermost Eval returns to its caller.
EvalReturns ==
    /\ pc = "ret"
    /\ stack = <<>>
    /\ pc' = "done"
    /\ UNCHANGED <<program, heap, stack, node, env, val, last>>

\* Eval is entered with the host stack used up: the Go runtime ends the
\* process (fatal error: stack overflow) and no Eval call returns.
StackOverflow ==
    /\ pc = "eval"
    /\ Len(stack) >= MaxStack
    /\ pc' = "overflow"
    /\ UNCHANGED <<program, heap, stack, node, env, val, last>>


-----------------------------------------------------------------------------
(* The programs the model evaluates *)

Lit(i) == IntegerLiteral(Int64Of(i))
Id(n) == Identifier(n)
Expr(e) == ExpressionStatement(e)
Block(stmts) == BlockStatement(stmts)
Fn(params, stmts) == FunctionLiteral(params, BlockStatement(stmts))
If(cond, stmts) == IfExpression(cond, BlockStatement(stmts), NoNode)

\* Expressions by what they evaluate to in an empty environment.
YieldsError == {Id("x"), InfixExpression(Boolean(TRUE), "+", Boolean(TRUE))}
YieldsNil == {If(Boolean(TRUE), <<>>)}
YieldsReturnValue ==
    {If(Boolean(TRUE), <<ReturnStatement(Lit(1))>>),
     CallExpression(Fn(<<>>, <<ReturnStatement(Lit(1))>>), <<>>)}
Panics == {InfixExpression(Lit(1), "/", Lit(0))}
Operands ==
    {Lit(i) : i \in 0..MaxInt}
    \cup {Boolean(TRUE), Boolean(FALSE), StringLiteral("s"), Id("null"),
          Fn(<<>>, <<Expr(Lit(1))>>)}
    \cup YieldsError \cup YieldsNil \cup YieldsReturnValue \cup Panics

InfixOperators == {"+", "-", "*", "/", "<", ">", "==", "!="}
PrefixOperators == {"!", "-"}

InfixPrograms ==
    {Program(<<Expr(InfixExpression(l, op, r))>>) :
        l \in Operands, op \in InfixOperators, r \in Operands}

PrefixPrograms ==
    {Program(<<Expr(PrefixExpression(op, r))>>) :
        op \in PrefixOperators, r \in Operands}

Alternatives ==
    {NoNode, Block(<<Expr(Lit(0))>>), Block(<<LetStatement("b", Lit(1))>>)}
IfPrograms ==
    {Program(<<Expr(IfExpression(c, Block(<<LetStatement("a", Lit(1))>>), alt)),
               Expr(Id("a"))>>) :
        c \in Operands, alt \in Alternatives}

\* Statement lists of at most MaxStmts statements.
Statements ==
    {Expr(Lit(1)),
     LetStatement("a", Lit(1)),
     ReturnStatement(Lit(0)),
     Expr(Id("a")),
     ReturnStatement(Id("x")),
     Expr(If(Boolean(TRUE), <<ReturnStatement(StringLiteral("s"))>>))}
StatementLists == UNION {[1..n -> Statements] : n \in 0..MaxStmts}

SequencePrograms ==
    {Program(l) : l \in StatementLists}
    \cup {Program(<<Expr(If(Boolean(TRUE), l)), Expr(Id("a"))>>) :
            l \in StatementLists}
    \cup {Program(<<Expr(CallExpression(Fn(<<>>, l), <<>>)), Expr(Id("a"))>>) :
            l \in StatementLists}

Callees ==
    {Fn(<<>>, <<Expr(Lit(1))>>),
     Fn(<<"p">>, <<Expr(Id("p"))>>),
     Fn(<<"p", "q">>, <<LetStatement("a", Id("p")), ReturnStatement(Id("q"))>>),
     Lit(1), Id("x"), If(Boolean(TRUE), <<>>)}
Arguments == {Lit(1), Id("x"), Boolean(TRUE)}
ArgumentLists == UNION {[1..n -> Arguments] : n \in 0..2}
CallPrograms ==
    {Program(<<Expr(CallExpression(f, args)), Expr(Id("a"))>>) :
        f \in Callees, args \in ArgumentLists}

\* `let a = 0; let n = E; n` at the top level and inside a call, where the
\* call frame's `let` meets the outer binding of `a`.
LetNames == {"a", "b", "null"}
LetPrograms ==
    {Program(<<LetStatement("a", Lit(0)), LetStatement(n, v), Expr(Id(n))>>) :
        n \in LetNames, v \in Operands}
    \cup {Program(<<LetStatement("a", Lit(0)),
                    Expr(CallExpression(
                        Fn(<<>>, <<LetStatement(n, v), Expr(Id(n))>>), <<>>)),
                    Expr(Id("a"))>>) :
            n \in LetNames, v \in Operands}

\* let a = 5; let b = a; b
LetChainProgram ==
    Program(<<LetStatement("a", Lit(5)), LetStatement("b", Id("a")),
              Expr(Id("b"))>>)

\* "foo" + "bar"
ConcatProgram ==
    Program(<<Expr(InfixExpression(StringLiteral("foo"), "+",
                                   StringLiteral("bar")))>>)

\* true + false
TrueFalseProgram ==
    Program(<<Expr(InfixExpression(Boolean(TRUE), "+", Boolean(FALSE)))>>)

\* `null`
NullProgram == Program(<<Expr(Id("null"))>>)

\* foobar
FoobarProgram == Program(<<Expr(Id("foobar"))>>)

\* let mk = fn(a){ fn(b){ a+b } }; mk(3)(4)
ClosureProgram ==
    Program(<<LetStatement("mk",
                Fn(<<"a">>, <<Expr(Fn(<<"b">>,
                    <<Expr(InfixExpression(Id("a"), "+", Id("b")))>>))>>)),
              Expr(CallExpression(CallExpression(Id("mk"), <<Lit(3)>>),
                                  <<Lit(4)>>))>>)

\* let a = 10; let f = fn(){a}; f()
GlobalProgram ==
    Program(<<LetStatement("a", Lit(10)),
              LetStatement("f", Fn(<<>>, <<Expr(Id("a"))>>)),
              Expr(CallExpression(Id("f"), <<>>))>>)

\* let g = fn(){ x }; let f = fn(x){ g() }; f(2)
CallerFrameProgram ==
    Program(<<LetStatement("g", Fn(<<>>, <<Expr(Id("x"))>>)),
              LetStatement("f", Fn(<<"x">>, <<Expr(CallExpression(Id("g"), <<>>))>>)),
              Expr(CallExpression(Id("f"), <<Lit(2)>>))>>)

\* let f = fn(){ return 1; }; f(); 5
ReturnInCallProgram ==
    Program(<<LetStatement("f", Fn(<<>>, <<ReturnStatement(Lit(1))>>)),
              Expr(CallExpression(Id("f"), <<>>)),
              Expr(Lit(5))>>)

\* fn(){ return 1; }() + 1
ReturnOperandProgram ==
    Program(<<Expr(InfixExpression(
                CallExpression(Fn(<<>>, <<ReturnStatement(Lit(1))>>), <<>>),
                "+", Lit(1)))>>)

\* if (10 > 1) { if (10 > 1) { return 1; } return 10; }
NestedReturnProgram ==
    Program(<<Expr(If(InfixExpression(Lit(10), ">", Lit(1)),
                <<Expr(If(InfixExpression(Lit(10), ">", Lit(1)),
                          <<ReturnStatement(Lit(1))>>)),
                  ReturnStatement(Lit(10))>>))>>)

\* if (1 > 0){10; return 9; 8}
BlockReturnProgram ==
    Program(<<Expr(If(InfixExpression(Lit(1), ">", Lit(0)),
                <<Expr(Lit(10)), ReturnStatement(Lit(9)), Expr(Lit(8))>>))>>)

\* 5 + true; 5;
ErrorThenProgram ==
    Program(<<Expr(InfixExpression(Lit(5), "+", Boolean(TRUE))), Expr(Lit(5))>>)

\* true + true + true
NestedErrorProgram ==
    Program(<<Expr(InfixExpression(
                InfixExpression(Boolean(TRUE), "+", Boolean(TRUE)),
                "+", Boolean(TRUE)))>>)

\* let f = fn(){ f() }; f()
RecursiveProgram ==
    Program(<<LetStatement("f", Fn(<<>>, <<Expr(CallExpression(Id("f"), <<>>))>>)),
              Expr(CallExpression(Id("f"), <<>>))>>)

\* let f = fn(){ g() }; let g = fn(){ f() }; f()
MutualProgram ==
    Program(<<LetStatement("f", Fn(<<>>, <<Expr(CallExpression(Id("g"), <<>>))>>)),
              LetStatement("g", Fn(<<>>, <<Expr(CallExpression(Id("f"), <<>>))>>)),
              Expr(CallExpression(Id("f"), <<>>))>>)

\* let f = fn(n){ if (n == 0) { 0 } else { f(n - 1) } }; f(1)
CountdownProgram ==
    Program(<<LetStatement("f",
                Fn(<<"n">>,
                   <<Expr(IfExpression(
                       InfixExpression(Id("n"), "==", Lit(0)),
                       Block(<<Expr(Lit(0))>>),
                       Block(<<Expr(CallExpression(Id("f"),
                                <<InfixExpression(Id("n"), "-", Lit(1))>>))>>)))>>)),
              Expr(CallExpression(Id("f"), <<Lit(1)>>))>>)

\* More programs, by name.
\*   computedCondition: if ((1 < 2) == true) { 10 } else { 20 }
\*   boundCondition:    let t = !(1 > 2); if (t) { 10 } else { 20 }
\*   leak:              let f = fn(x) { let a = 1; x }; f(2); a
\*   returnOfCall:      let f = fn() { return 1; }; return f();
\*   returnOfIf:        return if (true) { return 1; };
\*   leftError:         foobar + (1 / 0)
\*   ifScope:           let a = 1; if (true) { let a = 2; } a
Scenarios ==
    [computedCondition |->
        Program(<<Expr(IfExpression(
                    InfixExpression(InfixExpression(Lit(1), "<", Lit(2)), "==",
                                    Boolean(TRUE)),
                    Block(<<Expr(Lit(10))>>), Block(<<Expr(Lit(20))>>)))>>),
     leak |->
        Program(<<LetStatement("f", Fn(<<"x">>, <<LetStatement("a", Lit(1)),
                                                  Expr(Id("x"))>>)),
                  Expr(CallExpression(Id("f"), <<Lit(2)>>)),
                  Expr(Id("a"))>>),
     returnOfCall |->
        Program(<<LetStatement("f", Fn(<<>>, <<ReturnStatement(Lit(1))>>)),
                  ReturnStatement(CallExpression(Id("f"), <<>>))>>),
     returnOfIf |->
        Program(<<ReturnStatement(If(Boolean(TRUE), <<ReturnStatement(Lit(1))>>))>>),
     leftError |->
        Program(<<Expr(InfixExpression(Id("foobar"), "+",
                                       InfixExpression(Lit(1), "/", Lit(0))))>>),
     ifScope |->
        Program(<<LetStatement("a", Lit(1)),
                  Expr(If(Boolean(TRUE), <<LetStatement("a", Lit(2))>>)),
                  Expr(Id("a"))>>),
     boundCondition |->
        Program(<<LetStatement("t", PrefixExpression("!",
                                      InfixExpression(Lit(1), ">", Lit(2)))),
                  Expr(IfExpression(Id("t"), Block(<<Expr(Lit(10))>>),
                                    Block(<<Expr(Lit(20))>>)))>>)]

ScenarioPrograms ==
    {ClosureProgram, GlobalProgram, CallerFrameProgram, ReturnInCallProgram,
     ReturnOperandProgram, NestedReturnProgram, BlockReturnProgram,
     ErrorThenProgram, NestedErrorProgram, RecursiveProgram, LetChainProgram,
     FoobarProgram, NullProgram, ConcatProgram, TrueFalseProgram,
     MutualProgram, CountdownProgram}
    \cup {Scenarios[name] : name \in DOMAIN Scenarios}

Programs ==
    InfixPrograms \cup PrefixPrograms \cup IfPrograms \cup SequencePrograms
    \cup CallPrograms \cup LetPrograms \cup ScenarioPrograms

-----------------------------------------------------------------------------
(* The specification *)

\* testEval: Eval(program, object.NewEnvironment())
Init ==
    /\ program \in Programs
    /\ heap = <<NewEnvironment>>
    /\ stack = <<>>
    /\ pc = "eval"
    /\ node = program
    /\ env = 1
    /\ val = Nil
    /\ last = [fn |-> "none"]

Next ==
    \/ EvalProgram
    \/ evalStatement
    \/ EvalExpressionStatement
    \/ EvalBlockStatement
    \/ evalBlockStatement
    \/ EvalLiteral
    \/ evalPrefixExpression
    \/ evalPrefixExpressionReturn
    \/ evalInfixExpression
    \/ evalInfixExpressionRight
    \/ evalInfixExpressionReturn
    \/ evalIfExpression
    \/ evalIfExpressionCondition
    \/ evalIfExpressionReturn
    \/ EvalReturnStatement
    \/ EvalReturnStatementReturn
    \/ EvalLetStatement
    \/ EvalLetStatementReturn
    \/ EvalFunctionLiteral
    \/ EvalIdentifier
    \/ evalCallExpression
    \/ evalCallExpressionFunction
    \/ evalCallExpressionArgument
    \/ evalCallExpressionReturn
    \/ EvalReturns
    \/ StackOverflow

Spec == Init /\ [][Next]_vars

\* Every step of Next changes the control point, the depth of the stack or
\* the kind of node being evaluated.
position == <<pc, Len(stack), node.node>>

\* Eval runs on one goroutine with nothing to wait for: while a step is
\* possible the next one is taken.
FairSpec == Spec /\ WF_position(Next)

-----------------------------------------------------------------------------
(* package object on its own: Set and Get called on the frames of          *)
(* environment chains.  `last.sets` is the history of the Set calls made.  *)

\* Frames as NewEnvironment and NewEnclosingEnvironment build them: a single
\* frame, chains of two and three frames, and two frames enclosing the same
\* outer frame.
EnvironmentChains ==
    {<<NewEnvironment>>,
     <<NewEnvironment, NewEnclosingEnvironment(1)>>,
     <<NewEnvironment, NewEnclosingEnvironment(1), NewEnclosingEnvironment(2)>>,
     <<NewEnvironment, NewEnclosingEnvironment(1), NewEnclosingEnvironment(1)>>}
EnvironmentNames == {"a", "b"}
EnvironmentObjects == {IntegerObj(Int64Of(0)), IntegerObj(Int64Of(1))}

EnvironmentInit ==
    /\ program = NoNode
    /\ heap \in EnvironmentChains
    /\ stack = <<>>
    /\ pc = "object"
    /\ node = NoNode
    /\ env = 0
    /\ val = Nil
    /\ last = [fn |-> "NewEnvironment", sets |-> <<>>, before |-> heap]

\* environment.Set(name, object) on one of the frames.
EnvironmentSet ==
    /\ pc = "object"
    /\ Len(last.sets) < MaxSets
    /\ \E e \in 1..Len(heap), name \in EnvironmentNames,
          object \in EnvironmentObjects :
          /\ heap' = Set(heap, e, name, object)
          /\ last' = [fn |-> "Set", before |-> heap,
                      sets |-> Append(last.sets,
                                      [environment |-> e, name |-> name,
                                       object |-> object])]
    /\ node' = NoNode
    /\ env' = 0
    /\ val' = Nil
    /\ UNCHANGED <<program, stack, pc>>

\* environment.Get(name) on one of the frames; `val` is what it returns.
EnvironmentGet ==
    /\ pc = "object"
    /\ \E e \in 1..Len(heap), name \in EnvironmentNames :
          /\ node' = Identifier(name)
          /\ env' = e
          /\ val' = Get(heap, e, name)
    /\ UNCHANGED <<program, heap, stack, pc, last>>

EnvironmentNext == EnvironmentSet \/ EnvironmentGet

EnvironmentSpec == EnvironmentInit /\ [][EnvironmentNext]_vars


-----------------------------------------------------------------------------
(* The integer operators on their own: two Integer objects are drawn, and   *)
(* evalInfixIntegerOperator or evalMinusOperatorExpression is applied to    *)
(* them; `val` is what it returns.                                          *)

Int64Values ==
    {Int64Of(v) : v \in {0, 1, -1, 2, -2, 7, -7}} \cup {MaxInt64, MinInt64}

IntegerInit ==
    /\ program = NoNode
    /\ heap = <<>>
    /\ stack = <<>>
    /\ pc = "operands"
    /\ node = NoNode
    /\ env = 0
    /\ val = Nil
    /\ \E a \in Int64Values, b \in Int64Values :
          last = [fn |-> "none", left |-> IntegerObj(a), right |-> IntegerObj(b)]

IntegerNext ==
    /\ pc = "operands"
    /\ pc' = "result"
    /\ \/ \E operator \in InfixOperators :
             /\ val' = evalInfixIntegerOperator(operator, last.left, last.right)
             /\ last' = [fn |-> "evalInfixIntegerOperator", operator |-> operator,
                         left |-> last.left, right |-> last.right,
                         out |-> evalInfixIntegerOperator(operator, last.left,
                                                          last.right)]
       \/ /\ val' = evalMinusOperatorExpression(last.right)
          /\ last' = [fn |-> "evalMinusOperatorExpression", operator |-> "-",
                      left |-> last.left, right |-> last.right,
                      out |-> evalMinusOperatorExpression(last.right)]
    /\ UNCHANGED <<program, heap, stack, node, env>>

IntegerSpec == IntegerInit /\ [][IntegerNext]_vars

-----------------------------------------------------------------------------
(* packages token, lexer, parser and ast.  Text is a sequence of           *)
(* characters, each a string of length one; a token's Literal and a        *)
(* rendering are such sequences too.  The parser's nodes carry their Token, *)
(* which is what they render from.                                          *)

Letters ==
    {"a", "b", "c", "d", "e", "f", "g", "h", "i", "j", "k", "l", "m", "n",
     "o", "p", "q", "r", "s", "t", "u", "v", "w", "x", "y", "z", "_"}
Digits == {"0", "1", "2", "3", "4", "5", "6", "7", "8", "9"}

Token(type, literal) == [Type |-> type, Literal |-> literal]

\* The text of a sequence of characters as one string.
RECURSIVE Str(_)
Str(chars) == IF chars = <<>> THEN "" ELSE Head(chars) \o Str(Tail(chars))

\* The length of the longest prefix of `input` made of characters of `set`.
Run(input, set) ==
    CHOOSE k \in 0..Len(input) :
        /\ \A i \in 1..k : input[i] \in set
        /\ (k = Len(input) \/ input[k + 1] \notin set)

\* Lexer.NextToken called until EOF: the tokens of `input`, EOF last.
RECURSIVE NextToken(_)
NextToken(input) ==
    LET keywords ==
            (<<"f", "n">> :> "FUNCTION") @@ (<<"l", "e", "t">> :> "LET")
            @@ (<<"t", "r", "u", "e">> :> "TRUE")
            @@ (<<"f", "a", "l", "s", "e">> :> "FALSE")
            @@ (<<"i", "f">> :> "IF") @@ (<<"e", "l", "s", "e">> :> "ELSE")
            @@ (<<"r", "e", "t", "u", "r", "n">> :> "RETURN")
        single ==
            ("+" :> "PLUS") @@ ("-" :> "MINUS") @@ ("*" :> "ASTERISK")
            @@ ("/" :> "SLASH") @@ ("<" :> "LT") @@ (">" :> "GT")
            @@ (";" :> "SEMICOLON") @@ ("," :> "COMMA") @@ ("(" :> "LPAREN")
            @@ (")" :> "RPAREN") @@ ("{" :> "LBRACE") @@ ("}" :> "RBRACE")
        ch == Head(input)
        from(k) == SubSeq(input, k, Len(input))
        two(type) == <<Token(type, SubSeq(input, 1, 2))>> \o NextToken(from(3))
        one(type) == <<Token(type, <<ch>>)>> \o NextToken(from(2))
        word(type, n) == <<Token(type, SubSeq(input, 1, n))>> \o NextToken(from(n + 1))
    IN  IF input = <<>>
        THEN <<Token("EOF", <<>>)>>
        ELSE CASE ch \in {" ", "\t", "\n", "\r"} -> NextToken(from(2))
               [] ch = "=" ->
                    IF Len(input) > 1 /\ input[2] = "="
                    THEN two("EQ") ELSE one("ASSIGN")
               [] ch = "!" ->
                    IF Len(input) > 1 /\ input[2] = "="
                    THEN two("NE") ELSE one("BANG")
               [] ch \in DOMAIN single -> one(single[ch])
               [] ch = "\"" ->
                    LET n == Run(from(2), (Letters \cup Digits \cup DOMAIN single
                                           \cup {" ", "=", "!"}))
                    IN  <<Token("STRING", SubSeq(input, 2, n + 1))>>
                        \o NextToken(from(n + 3))
               [] ch \in Letters ->
                    LET n == Run(input, Letters)
                        literal == SubSeq(input, 1, n)
                    IN  word(IF literal \in DOMAIN keywords
                             THEN keywords[literal] ELSE "IDENT", n)
               [] ch \in Digits -> word("INT", Run(input, Digits))
               [] OTHER -> one("ILLEGAL")

\* The parser's current token when it has advanced to position i.
At(tokens, i) == IF i <= Len(tokens) THEN tokens[i] ELSE Token("EOF", <<>>)

\* A table in which + and - bind tighter than * and /.
precedencesSumOverProduct ==
    ("EQ" :> 2) @@ ("NE" :> 2) @@ ("LT" :> 3) @@ ("GT" :> 3) @@ ("PLUS" :> 5)
    @@ ("MINUS" :> 5) @@ ("ASTERISK" :> 4) @@ ("SLASH" :> 4) @@ ("LPAREN" :> 7)

\* The precedence table: LOWEST is 1, EQUALS 2, LESSGREATER 3, SUM 4,
\* PRODUCT 5, PREFIX 6, CALL 7.  Its domain is the tokens with an infix
\* handler.
precedences ==
    ("EQ" :> 2) @@ ("NE" :> 2) @@ ("LT" :> 3) @@ ("GT" :> 3) @@ ("PLUS" :> 4)
    @@ ("MINUS" :> 4) @@ ("ASTERISK" :> 5) @@ ("SLASH" :> 5) @@ ("LPAREN" :> 7)

peekPrecedence(tokens, pos) ==
    IF At(tokens, pos + 1).Type \in DOMAIN precedences
    THEN precedences[At(tokens, pos + 1).Type]
    ELSE 1

\* A handler's result: the node (NoNode for nil), the position of the
\* parser's current token afterwards, and the errors it recorded.
Parsed(n, pos, errors) == [node |-> n, pos |-> pos, errors |-> errors]

RECURSIVE parseExpression(_, _, _)
RECURSIVE parseInfixExpression(_, _, _)
RECURSIVE parseCallArguments(_, _)

\* The prefix handler of the current token, then the infix handlers.
parseExpression(tokens, pos, precedence) ==
    LET tok == At(tokens, pos)
        unary == parseExpression(tokens, pos + 1, 6)
        group == parseExpression(tokens, pos + 1, 1)
        left ==
            CASE tok.Type = "IDENT" ->
                   Parsed([node |-> "Identifier", Token |-> tok,
                           Value |-> Str(tok.Literal)], pos, <<>>)
              [] tok.Type = "INT" ->
                   Parsed([node |-> "IntegerLiteral", Token |-> tok], pos, <<>>)
              [] tok.Type = "STRING" ->
                   Parsed([node |-> "StringLiteral", Token |-> tok,
                           Value |-> Str(tok.Literal)], pos, <<>>)
              [] tok.Type \in {"TRUE", "FALSE"} ->
                   Parsed([node |-> "Boolean", Token |-> tok,
                           Value |-> tok.Type = "TRUE"], pos, <<>>)
              [] tok.Type \in {"BANG", "MINUS"} ->
                   Parsed([node |-> "PrefixExpression", Token |-> tok,
                           Operator |-> Str(tok.Literal), Right |-> unary.node],
                          unary.pos, unary.errors)
              [] tok.Type = "LPAREN" ->
                   IF At(tokens, group.pos + 1).Type = "RPAREN"
                   THEN Parsed(group.node, group.pos + 1, group.errors)
                   ELSE Parsed(NoNode, group.pos,
                               Append(group.errors,
                                      "expected next token to be RPAREN, got "
                                      \o At(tokens, group.pos + 1).Type))
              [] OTHER ->
                   Parsed(NoNode, pos,
                          <<"no prefix parse function for " \o tok.Type \o " found">>)
    IN  IF left.node.node = "nil"
        THEN left
        ELSE parseInfixExpression(tokens, left, precedence)

\* parseExpression's loop: while the next token binds tighter than
\* `precedence`, its infix handler takes what has been parsed as its left
\* side; a binary operator parses its right side at its own precedence.
parseInfixExpression(tokens, left, precedence) ==
    LET tok == At(tokens, left.pos + 1)
        right == parseExpression(tokens, left.pos + 2, precedences[tok.Type])
        arguments == parseCallArguments(tokens, left.pos + 1)
    IN  IF ~(precedence < peekPrecedence(tokens, left.pos))
        THEN left
        ELSE IF tok.Type = "LPAREN"
        THEN parseInfixExpression(
                 tokens,
                 Parsed([node |-> "CallExpression", Token |-> tok,
                         Function |-> left.node, Arguments |-> arguments.nodes],
                        arguments.pos, left.errors \o arguments.errors),
                 precedence)
        ELSE parseInfixExpression(
                 tokens,
                 Parsed([node |-> "InfixExpression", Token |-> tok,
                         Left |-> left.node, Operator |-> Str(tok.Literal),
                         Right |-> right.node],
                        right.pos, left.errors \o right.errors),
                 precedence)

\* The arguments of a call, the current token being its `(` or the `,`
\* before the next argument.
parseCallArguments(tokens, pos) ==
    LET argument == parseExpression(tokens, pos + 1, 1)
        more == parseCallArguments(tokens, argument.pos + 1)
        next == At(tokens, argument.pos + 1).Type
    IN  IF At(tokens, pos).Type = "LPAREN" /\ At(tokens, pos + 1).Type = "RPAREN"
        THEN [nodes |-> <<>>, pos |-> pos + 1, errors |-> <<>>]
        ELSE CASE next = "COMMA" ->
                    [nodes |-> <<argument.node>> \o more.nodes, pos |-> more.pos,
                     errors |-> argument.errors \o more.errors]
               [] next = "RPAREN" ->
                    [nodes |-> <<argument.node>>, pos |-> argument.pos + 1,
                     errors |-> argument.errors]
               [] OTHER ->
                    [nodes |-> <<argument.node>>, pos |-> argument.pos,
                     errors |-> Append(argument.errors,
                                       "expected next token to be RPAREN, got "
                                       \o next)]

\* One statement, the current token being its first; a trailing semicolon
\* is consumed.
parseStatement(tokens, pos) ==
    LET tok == At(tokens, pos)
        skip(e) == IF At(tokens, e.pos + 1).Type = "SEMICOLON"
                   THEN e.pos + 1 ELSE e.pos
        name == At(tokens, pos + 1)
        value == parseExpression(tokens, pos + 3, 1)
        returned == parseExpression(tokens, pos + 1, 1)
        expression == parseExpression(tokens, pos, 1)
    IN  CASE tok.Type = "LET" ->
               IF name.Type # "IDENT"
               THEN Parsed(NoNode, pos,
                           <<"expected next token to be IDENT, got " \o name.Type>>)
               ELSE IF At(tokens, pos + 2).Type # "ASSIGN"
               THEN Parsed(NoNode, pos + 1,
                           <<"expected next token to be ASSIGN, got "
                             \o At(tokens, pos + 2).Type>>)
               ELSE Parsed([node |-> "LetStatement", Token |-> tok,
                            Name |-> [node |-> "Identifier", Token |-> name,
                                      Value |-> Str(name.Literal)],
                            Value |-> value.node],
                           skip(value), value.errors)
          [] tok.Type = "RETURN" ->
               Parsed([node |-> "ReturnStatement", Token |-> tok,
                       ReturnValue |-> returned.node],
                      skip(returned), returned.errors)
          [] OTHER ->
               Parsed([node |-> "ExpressionStatement", Token |-> tok,
                       Expression |-> expression.node],
                      skip(expression), expression.errors)

\* Parser.ParseProgram: statements until EOF; Parser.Errors with it.
RECURSIVE parseStatements(_, _)
parseStatements(tokens, pos) ==
    LET statement == parseStatement(tokens, pos)
        rest == parseStatements(tokens, statement.pos + 1)
    IN  IF At(tokens, pos).Type = "EOF"
        THEN [statements |-> <<>>, errors |-> <<>>]
        ELSE [statements |-> IF statement.node.node = "nil"
                             THEN rest.statements
                             ELSE <<statement.node>> \o rest.statements,
              errors |-> statement.errors \o rest.errors]

ParseProgram(input) ==
    LET parsed == parseStatements(NextToken(input), 1)
    IN  [program |-> [node |-> "Program", Statements |-> parsed.statements],
         errors |-> parsed.errors]

\* Node.String: the rendering of a node.
RECURSIVE String(_)
String(n) ==
    LET RECURSIVE join(_, _)
        join(nodes, separator) ==
            IF nodes = <<>>
            THEN <<>>
            ELSE String(Head(nodes))
                 \o (IF Len(nodes) > 1
                     THEN separator \o join(Tail(nodes), separator)
                     ELSE <<>>)
    IN  CASE n.node = "Program" -> join(n.Statements, <<>>)
          [] n.node = "ExpressionStatement" -> String(n.Expression)
          [] n.node = "LetStatement" ->
               n.Token.Literal \o <<" ">> \o String(n.Name) \o <<" ", "=", " ">>
               \o String(n.Value) \o <<";">>
          [] n.node = "ReturnStatement" ->
               n.Token.Literal \o <<" ">> \o String(n.ReturnValue) \o <<";">>
          [] n.node = "PrefixExpression" ->
               <<"(">> \o n.Token.Literal \o String(n.Right) \o <<")">>
          [] n.node = "InfixExpression" ->
               <<"(">> \o String(n.Left) \o <<" ">> \o n.Token.Literal
               \o <<" ">> \o String(n.Right) \o <<")">>
          [] n.node = "CallExpression" ->
               String(n.Function) \o <<"(">> \o join(n.Arguments, <<",", " ">>)
               \o <<")">>
          [] n.node = "BlockStatement" ->
               <<"{">> \o join(n.Statements, <<>>) \o <<"}">>
          [] n.node = "nil" -> <<>>
          [] OTHER -> n.Token.Literal

-----------------------------------------------------------------------------
(* The parser under test, as testParsingUsingString drives it: the input   *)
(* is lexed and parsed, the parser's errors are checked, and the program    *)
(* is rendered; the rendering is then taken as input again.  `val` is the   *)
(* text in hand, `program` the last parse, `env` the number of parses, and  *)
(* `last` keeps the first input, the errors of the last parse and the       *)
(* renderings so far.                                                       *)

MaxParses == 2

\* Words separated by single spaces.
RECURSIVE Spaced(_)
Spaced(words) ==
    IF Len(words) = 1
    THEN Head(words)
    ELSE Head(words) \o <<" ">> \o Spaced(Tail(words))

BinaryOperators ==
    {<<"=", "=">>, <<"!", "=">>, <<"<">>, <<">">>, <<"+">>, <<"-">>, <<"*">>,
     <<"/">>}
UnaryOperators == {<<"-">>, <<"!">>}

\* `a op1 b op2 c` for every two binary operators.
InfixInputs ==
    {Spaced(<<(<<"a">>), op1, <<"b">>, op2, <<"c">>>>) :
        op1 \in BinaryOperators, op2 \in BinaryOperators}

\* `-a op b` and `a op -b` for both unary operators.
PrefixInputs ==
    {u \o Spaced(<<(<<"a">>), op, <<"b">>>>) :
        u \in UnaryOperators, op \in BinaryOperators}
    \cup {Spaced(<<(<<"a">>), op, u \o <<"b">>>>) :
            u \in UnaryOperators, op \in BinaryOperators}

\* `a op1 (b op2 c)` and `(a op1 b) op2 c`.
GroupInputs ==
    {Spaced(<<(<<"a">>), op1, <<"(", "b">>, op2, <<"c", ")">>>>) :
        op1 \in BinaryOperators, op2 \in BinaryOperators}
    \cup {Spaced(<<(<<"(", "a">>), op1, <<"b", ")">>, op2, <<"c">>>>) :
            op1 \in BinaryOperators, op2 \in BinaryOperators}

\* Inputs of the parser's tests, statements and calls among them, and
\* inputs the parser reports errors for.
TestInputs ==
    {Spaced(<<(<<"3">>), <<"+">>, <<"4", ";">>, <<"-", "5">>, <<"*">>, <<"5">>>>),
     Spaced(<<(<<"a">>), <<"+">>, <<"b">>, <<"*">>, <<"c">>, <<"+">>, <<"d">>,
              <<"/">>, <<"e">>, <<"-">>, <<"f">>>>),
     Spaced(<<(<<"5">>), <<">">>, <<"4">>, <<"=", "=">>, <<"3">>, <<"<">>, <<"4">>>>),
     Spaced(<<(<<"1">>), <<"+">>, <<"(", "2">>, <<"+">>, <<"3", ")">>, <<"+">>,
              <<"4">>>>),
     Spaced(<<(<<"-">>), <<"(", "5">>, <<"+">>, <<"5", ")">>>>),
     Spaced(<<(<<"!", "(", "t", "r", "u", "e">>), <<"=", "=">>,
              <<"t", "r", "u", "e", ")">>>>),
     Spaced(<<(<<"!", "-", "a">>)>>),
     Spaced(<<(<<"l", "e", "t">>), <<"x">>, <<"=">>, <<"5", ";">>>>),
     Spaced(<<(<<"r", "e", "t", "u", "r", "n">>), <<"a">>, <<"+">>, <<"b", ";">>>>),
     Spaced(<<(<<"a", "d", "d", "(", "1", ",">>), <<"2">>, <<"*">>, <<"3", ")">>>>),
     Spaced(<<(<<"a", ";">>), <<"b">>>>),
     Spaced(<<(<<"a">>), <<"<">>, <<"=">>, <<"b">>>>),
     Spaced(<<(<<"l", "e", "t">>), <<"=">>, <<"5", ";">>>>),
     Spaced(<<(<<"(", "a">>), <<"+">>, <<"b">>>>)}

ParserInputs == InfixInputs \cup PrefixInputs \cup GroupInputs \cup TestInputs

ParserInit ==
    /\ program = NoNode
    /\ heap = <<>>
    /\ stack = <<>>
    /\ pc = "input"
    /\ node = NoNode
    /\ env = 0
    /\ val \in ParserInputs
    /\ last = [fn |-> "New", input |-> val, errors |-> <<>>, outputs |-> <<>>]

\* lexer.New(input), New(l), ParseProgram(), checkParserErrors.
TestParseProgram ==
    /\ pc = "input"
    /\ env < MaxParses
    /\ program' = ParseProgram(val).program
    /\ last' = [last EXCEPT !.fn = "ParseProgram",
                            !.errors = ParseProgram(val).errors]
    /\ env' = env + 1
    /\ pc' = "program"
    /\ UNCHANGED <<heap, stack, node, val>>

\* program.String(), for a program parsed without errors.
TestProgramString ==
    /\ pc = "program"
    /\ last.errors = <<>>
    /\ val' = String(program)
    /\ last' = [last EXCEPT !.fn = "String", !.outputs = Append(@, String(program))]
    /\ pc' = "input"
    /\ UNCHANGED <<program, heap, stack, node, env>>

ParserNext == TestParseProgram \/ TestProgramString

ParserSpec == ParserInit /\ [][ParserNext]_vars

-----------------------------------------------------------------------------
(* Object.Inspect.  `val` is the receiver of the Inspect call in progress, *)
(* `stack` the Inspect calls waiting for a call they made, and `last` the   *)
(* call that returned, with the string it returned.                         *)

\* Inspect of every object but a ReturnValue.  A Function's parameters and
\* body are nodes as the parser builds them.
Inspect(object) ==
    LET ten == Int64Of(10)
        zero == Int64Of(0)
        digit == <<"0", "1", "2", "3", "4", "5", "6", "7", "8", "9">>
        \* The decimal digits of the magnitude of n, for n <= 0.
        RECURSIVE digits(_)
        digits(n) ==
            CHOOSE out \in
                {(IF q = zero THEN "" ELSE digits(q))
                 \o digit[Int64("-", Int64("*", q, ten), n)[1] + 1] :
                 q \in {Int64("/", n, ten)}} : TRUE
        RECURSIVE join(_)
        join(params) ==
            IF params = <<>>
            THEN ""
            ELSE Str(String(Head(params)))
                 \o (IF Len(params) > 1 THEN ", " \o join(Tail(params)) ELSE "")
    IN  CASE object.type = "INTEGER" ->
               IF Int64("<", object.Value, zero)
               THEN "-" \o digits(object.Value)
               ELSE digits(Int64("-", zero, object.Value))
          [] object.type = "BOOLEAN" -> IF object.Value THEN "true" ELSE "false"
          [] object.type = "STRING" -> "\"" \o object.Value \o "\""
          [] object.type = "NULL" -> "NULL"
          [] object.type = "ERROR" -> InspectError(object)
          [] object.type = "FUNCTION" ->
               "fn (" \o join(object.Parameters) \o ") {\n"
               \o Str(String(object.Body)) \o "\n}"
          [] object.type = "BUILDIN" -> "buildin function"

\* Objects of every variant; the ReturnValues wrap each of the others, and
\* one wraps a ReturnValue.
InspectObjects ==
    LET identifier(name) ==
            [node |-> "Identifier", Value |-> name,
             Token |-> Token("IDENT", <<name>>)]
        statement(expression) ==
            [node |-> "ExpressionStatement", Expression |-> expression,
             Token |-> expression.Token]
        function(params, expression) ==
            FunctionObj(params,
                        [node |-> "BlockStatement",
                         Statements |-> <<statement(expression)>>], 1)
        plain ==
            <<IntegerObj(Int64Of(0)), IntegerObj(Int64Of(5)), IntegerObj(Int64Of(-7)),
             IntegerObj(MaxInt64), IntegerObj(MinInt64), TrueObj, FalseObj,
             StringObj(""), StringObj("foobar"), NULL,
             ErrorObj("Identifier not found: foobar"),
             function(<<identifier("x"), identifier("y")>>,
                      [node |-> "InfixExpression", Operator |-> "+",
                       Left |-> identifier("x"), Right |-> identifier("y"),
                       Token |-> Token("PLUS", <<"+">>)]),
             function(<<>>, identifier("x")),
             [type |-> "BUILDIN"]>>
    IN  plain \o [i \in 1..Len(plain) |-> ReturnValueObj(plain[i])]
        \o <<ReturnValueObj(ReturnValueObj(IntegerObj(Int64Of(1))))>>

InspectInit ==
    /\ program = NoNode
    /\ heap = <<>>
    /\ stack = <<>>
    /\ pc = "Inspect"
    /\ node = NoNode
    /\ env = 0
    /\ \E i \in 1..Len(InspectObjects) : val = InspectObjects[i]
    /\ last = [fn |-> "none"]

\* Inspect of any object but a ReturnValue returns its string.
InspectReturns ==
    /\ pc = "Inspect"
    /\ val.type # "RETURN_VALUE"
    /\ last' = [fn |-> "Inspect", receiver |-> val, out |-> Inspect(val)]
    /\ pc' = "ret"
    /\ UNCHANGED <<program, heap, stack, node, env, val>>

\* (*ReturnValue).Inspect calls rValue.Inspect(): itself, on the same
\* receiver.
InspectReturnValue ==
    /\ pc = "Inspect"
    /\ val.type = "RETURN_VALUE"
    /\ Len(stack) < MaxStack
    /\ stack' = Append(stack, [fn |-> "Inspect", receiver |-> val])
    /\ UNCHANGED <<program, heap, pc, node, env, val, last>>

\* The stack is exhausted by the pending calls: the Go runtime ends the
\* process (fatal error: stack overflow).
InspectStackOverflow ==
    /\ pc = "Inspect"
    /\ val.type = "RETURN_VALUE"
    /\ Len(stack) >= MaxStack
    /\ pc' = "overflow"
    /\ UNCHANGED <<program, heap, stack, node, env, val, last>>

InspectNext == InspectReturns \/ InspectReturnValue \/ InspectStackOverflow

InspectSpec == InspectInit /\ [][InspectNext]_vars

-----------------------------------------------------------------------------
(* Properties *)

Finished == pc = "done"
IsInteger(o, v) == o.type = "INTEGER" /\ o.Value = Int64Of(v)

\* An int64 within 32 bits, and the integer it is.
Small(x) ==
    \/ x[3] = 0 /\ x[4] = 0 /\ x[2] < 32768
    \/ x[3] = 65535 /\ x[4] = 65535 /\ x[2] >= 32768
IntOf(x) == IF x[4] = 0 THEN x[1] + 65536 * x[2] ELSE x[1] + 65536 * (x[2] - 65536)
IsErrorWith(o, m) == o.type = "ERROR" /\ o.Message = m
Wrapper(o) == o.type = "RETURN_VALUE"
Stopper(o) == o.type \in {"RETURN_VALUE", "ERROR"}

\* C1: a Function created inside a call and returned from it still resolves
\* the parameters of the call that created it when it is applied later:
\* `let mk = fn(a){ fn(b){ a+b } }; mk(3)(4)` evaluates to Integer 7.
ClosureKeepsEnvironment ==
    (Finished /\ program = ClosureProgram) => IsInteger(val, 7)

\* C2: in every function application the fresh call frame has as its outer
\* environment the environment the Function captured at its definition,
\* never the caller's environment.
CallFrameEnclosesCapturedEnvironment ==
    \A i \in 1..Len(stack) :
        (stack[i].fn = "evalCallExpression" /\ stack[i].at = "Body")
        => heap[stack[i].enclosingEnvironment].outer
             = stack[i].function.Environment

\* C3: the value of a CallExpression is never a ReturnValue: a `return v`
\* in a function body ends only that call, so
\* `let f = fn(){ return 1; }; f(); 5` yields 5 and
\* `fn(){ return 1; }() + 1` yields 2.
CallUnwrapsReturnValue ==
    /\ last.fn = "evalCallExpression" => ~Wrapper(last.out)
    /\ (Finished /\ program = ReturnInCallProgram) => IsInteger(val, 5)
    /\ (Finished /\ program = ReturnOperandProgram) => IsInteger(val, 2)

\* C4: an IfExpression whose condition evaluates to an Error returns that
\* same Error, with or without an alternative, and evaluates neither branch.
IfConditionErrorPropagates ==
    (last.fn = "evalIfExpression" /\ isError(last.condition))
    => (last.branch = "none" /\ SameObject(last.out, last.condition))

\* C5: Eval never returns a ReturnValue whose inner value is an Error:
\* `return E` with E evaluating to an Error yields the Error itself.
ErrorsNeverWrapped ==
    pc = "ret" => ~(Wrapper(val) /\ isError(val.Value))

\* C6: every Eval call returns an Object normally; no program makes the
\* evaluator abort with a runtime fault of the host.
EvalNeverAborts == pc # "panic"

\* The statements of `last` that were evaluated bound `name`.
BoundByEvaluated(name) ==
    \E j \in 1..Len(last.results) :
        /\ last.statements[j].node = "LetStatement"
        /\ last.statements[j].Name = name

\* The frame the statement list of `last` ran in binds `name`.
BoundInFrame(name) == name \in DOMAIN heap[last.environment].store

\* C7: evaluating a Program's statements in order, the first statement that
\* yields a ReturnValue ends evaluation, the result is the unwrapped inner
\* object and no later statement is evaluated (a later `let` binds nothing);
\* if no statement yields a ReturnValue or Error the result is the last
\* statement's value.
ProgramReturnEndsEvaluation ==
    last.fn = "evalStatement" =>
        LET r == last.results
            k == Len(last.results)
            n == Len(last.statements)
        IN  /\ \A i \in 1..(k - 1) : ~Wrapper(r[i])
            /\ (k > 0 /\ Wrapper(r[k])) => SameObject(last.out, r[k].Value)
            /\ (\A i \in 1..k : ~Stopper(r[i]))
                 => (k = n /\ last.out = IF n = 0 THEN Nil ELSE r[n])
            /\ last.statements \in StatementLists
                 => (BoundInFrame("a") <=> BoundByEvaluated("a"))

ProgramReturnEndsEvaluationWitness ==
    /\ Finished
    /\ last.fn = "evalStatement"
    /\ last.statements \in StatementLists
    /\ Len(last.results) = 2
    /\ Wrapper(last.results[2])
    /\ Len(last.statements) = 3
    /\ last.statements[3].node = "LetStatement"
    /\ ~BoundInFrame("a")
    /\ IsInteger(val, 0)

\* C8: a BlockStatement that meets a ReturnValue stops evaluating its
\* remaining statements and returns the ReturnValue still wrapped, so a
\* `return` in nested if-blocks exits all enclosing blocks:
\* `if (10 > 1) { if (10 > 1) { return 1; } return 10; }` yields 1 and
\* `if (1 > 0){10; return 9; 8}` yields 9.
BlockReturnStaysWrapped ==
    /\ last.fn = "evalBlockStatement" =>
         LET r == last.results
             k == Len(last.results)
         IN  /\ \A i \in 1..(k - 1) : ~Wrapper(r[i])
             /\ (k > 0 /\ Wrapper(r[k])) =>
                  /\ SameObject(last.out, r[k])
                  /\ last.statements \in StatementLists
                       => (BoundInFrame("a") <=> BoundByEvaluated("a"))
    /\ (Finished /\ program = NestedReturnProgram) => IsInteger(val, 1)
    /\ (Finished /\ program = BlockReturnProgram) => IsInteger(val, 9)

BlockReturnStaysWrappedWitness ==
    /\ program = NestedReturnProgram
    /\ last.fn = "evalBlockStatement"
    /\ Len(last.statements) = 2
    /\ Len(last.results) = 1
    /\ Wrapper(last.results[1])
    /\ last.out = ReturnValueObj(IntegerObj(Int64Of(1)))

\* C9: in a Program or a BlockStatement the first statement that evaluates
\* to an Error ends evaluation, that Error (message unmodified) is the
\* result and no later statement is evaluated, so a later `let` binds
\* nothing; `5 + true; 5;` yields `Type mismatch: INTEGER + BOOLEAN`.
ErrorEndsStatementList ==
    /\ last.fn \in {"evalStatement", "evalBlockStatement"} =>
         LET r == last.results
             k == Len(last.results)
         IN  /\ \A i \in 1..(k - 1) : ~isError(r[i])
             /\ (k > 0 /\ isError(r[k])) =>
                  /\ SameObject(last.out, r[k])
                  /\ last.statements \in StatementLists
                       => (BoundInFrame("a") <=> BoundByEvaluated("a"))
    /\ (Finished /\ program = ErrorThenProgram)
         => IsErrorWith(val, "Type mismatch: INTEGER + BOOLEAN")

ErrorEndsStatementListWitness ==
    /\ last.fn = "evalBlockStatement"
    /\ last.statements \in StatementLists
    /\ Len(last.statements) = 3
    /\ Len(last.results) = 1
    /\ isError(last.results[1])
    /\ last.statements[2].node = "LetStatement"
    /\ ~BoundInFrame("a")
    /\ IsErrorWith(last.out, "Identifier not found: a")

\* C10: an InfixExpression whose left operand evaluates to an Error returns
\* exactly that Error, otherwise one whose right operand evaluates to an
\* Error returns exactly that Error; a PrefixExpression whose operand
\* evaluates to an Error returns exactly that Error; no new message is
\* produced: `true + true + true` yields
\* `Unsupported operator: BOOLEAN + BOOLEAN`.
OperatorErrorPropagates ==
    /\ last.fn = "evalInfixExpression" =>
         /\ isError(last.left) => SameObject(last.out, last.left)
         /\ (~isError(last.left) /\ isError(last.right))
              => SameObject(last.out, last.right)
    /\ last.fn = "evalPrefixExpression" =>
         (isError(last.right) => SameObject(last.out, last.right))
    /\ (Finished /\ program = NestedErrorProgram)
         => IsErrorWith(val, "Unsupported operator: BOOLEAN + BOOLEAN")

OperatorErrorPropagatesWitness ==
    /\ last.fn = "evalInfixExpression"
    /\ isError(last.left)
    /\ isError(last.right)
    /\ last.left # last.right
    /\ last.out = last.left

\* The type tags of the values an expression can evaluate to.
ValueTypes == {"INTEGER", "BOOLEAN", "STRING", "NULL", "FUNCTION"}

\* C11: for every infix operator and every pair of operand values whose type
\* tags differ (INTEGER, BOOLEAN, STRING, NULL, FUNCTION, either order) the
\* result is the Error `Type mismatch: <LTYPE> <op> <RTYPE>`, and
\* `Unsupported operator: <LTYPE> <op> <RTYPE>` is the result only when both
\* operands have the same type.
TypeMismatchWheneverTypesDiffer ==
    (/\ last.fn = "evalInfixExpression"
     /\ last.left.type \in ValueTypes
     /\ last.right.type \in ValueTypes)
    => LET operands(kind) ==
               kind \o ": " \o last.left.type \o " " \o last.node.Operator
               \o " " \o last.right.type
       IN  /\ last.left.type # last.right.type
                => IsErrorWith(last.out, operands("Type mismatch"))
           /\ IsErrorWith(last.out, operands("Unsupported operator"))
                => last.left.type = last.right.type

\* The effect of the `let` that returned last: an Error value is returned and
\* no frame changes; any other value is bound under the name in the frame
\* the statement ran in, and nothing else in any frame changes.
LetStatementEffect ==
    last.fn = "LetStatement" =>
        LET name == last.node.Name
            e == last.environment
        IN  IF isError(last.value)
            THEN SameObject(last.out, last.value) /\ heap = last.before
            ELSE /\ Len(heap) = Len(last.before)
                 /\ name \in DOMAIN heap[e].store
                 /\ SameObject(heap[e].store[name], last.value)
                 /\ heap[e].outer = last.before[e].outer
                 /\ \A other \in DOMAIN last.before[e].store \ {name} :
                        /\ other \in DOMAIN heap[e].store
                        /\ SameObject(heap[e].store[other],
                                      last.before[e].store[other])
                 /\ DOMAIN heap[e].store \subseteq
                        DOMAIN last.before[e].store \cup {name}
                 /\ \A f \in (1..Len(heap)) \ {e} : heap[f] = last.before[f]

\* An Identifier (other than those in `except`) evaluated in a frame that
\* binds it yields the frame's binding.
IdentifierYieldsBinding(except) ==
    (/\ last.fn = "evalIdentifierExpression"
     /\ last.node.Value \notin except
     /\ last.node.Value \in DOMAIN heap[last.environment].store)
    => SameObject(last.out, heap[last.environment].store[last.node.Value])

\* A binding of a frame changes only when a `let` of that name returns in
\* that frame.
BindingChangesOnlyByLet ==
    \A e \in 1..Len(heap) : \A name \in DOMAIN heap[e].store :
        ~SameObject(heap'[e].store[name], heap[e].store[name])
        => /\ last'.fn = "LetStatement"
           /\ last'.node.Name = name
           /\ last'.environment = e

\* C12 as stated: `let n = E` with E an Error returns the Error and changes
\* no frame; otherwise n is bound to the value in the current frame only and
\* every later Identifier n in that frame yields that value until n is
\* re-bound; `let a = 5; let b = a; b` yields 5.
LetBindsEveryName ==
    /\ [](LetStatementEffect /\ IdentifierYieldsBinding({}))
    /\ [][BindingChangesOnlyByLet]_vars
    /\ []((Finished /\ program = LetChainProgram) => IsInteger(val, 5))

\* C12, amended: as above for every name n other than `null`; the Identifier
\* `null` yields the NULL singleton whatever `let null = E` has bound.
LetBindsName ==
    /\ [](LetStatementEffect /\ IdentifierYieldsBinding({"null"}))
    /\ [][BindingChangesOnlyByLet]_vars
    /\ []((Finished /\ program = LetChainProgram) => IsInteger(val, 5))

\* Inside a call `let a = 1` shadows the caller's `a` (still 0) and `a`
\* yields 1 there.
LetBindsNameWitness ==
    /\ last.fn = "evalIdentifierExpression"
    /\ last.node.Value = "a"
    /\ last.environment # 1
    /\ "a" \in DOMAIN heap[last.environment].store
    /\ heap[last.environment].outer = 1
    /\ "a" \in DOMAIN heap[1].store
    /\ IsInteger(heap[1].store["a"], 0)
    /\ IsInteger(last.out, 1)

\* The frames from `e` outward, nearest first.
RECURSIVE Chain(_, _)
Chain(h, e) == IF e = 0 THEN <<>> ELSE <<e>> \o Chain(h, h[e].outer)

\* The Set calls of the history made on frame `e` under `name`.
SetsOn(e, name) ==
    {i \in 1..Len(last.sets) :
        last.sets[i].environment = e /\ last.sets[i].name = name}

Max(S) == CHOOSE i \in S : \A j \in S : j <= i
Min(S) == CHOOSE i \in S : \A j \in S : i <= j

\* What Get(name) on frame `e` has to return after the Set calls of the
\* history: the latest value set in the nearest frame that was ever set.
Looked(e, name) ==
    LET chain == Chain(last.before, e)
        holders == {k \in 1..Len(chain) : SetsOn(chain[k], name) # {}}
    IN  IF holders = {}
        THEN [object |-> Nil, ok |-> FALSE]
        ELSE [object |-> last.sets[Max(SetsOn(chain[Min(holders)], name))].object,
              ok |-> TRUE]

\* C13: after any sequence of Set calls on the frames of an environment
\* chain, Get(name) on a frame returns (value, true) with the value most
\* recently Set under that name in the nearest frame holding the name, and a
\* miss only if no frame of the chain holds it; Set on a frame never changes
\* what Get returns on its outer frames.
EnvironmentGetSet ==
    pc = "object" =>
        /\ node.node = "Identifier" => val = Looked(env, node.Value)
        /\ \A e \in 1..Len(heap) : \A name \in EnvironmentNames :
               Get(heap, e, name) = Looked(e, name)
        /\ last.fn = "Set" =>
               LET e == last.sets[Len(last.sets)].environment
                   chain == Chain(last.before, e)
               IN  \A k \in 2..Len(chain) : \A name \in EnvironmentNames :
                       Get(heap, chain[k], name)
                         = Get(last.before, chain[k], name)

\* The innermost of three frames sees `a` of the outermost one, which was
\* set twice, through a middle frame that holds only `b`.
EnvironmentGetSetWitness ==
    /\ pc = "object"
    /\ Len(heap) = 3
    /\ heap[3].outer = 2
    /\ node = Identifier("a")
    /\ env = 3
    /\ Len(last.sets) = 3
    /\ last.sets[1] = [environment |-> 1, name |-> "a", object |-> IntegerObj(Int64Of(0))]
    /\ last.sets[2] = [environment |-> 2, name |-> "b", object |-> IntegerObj(Int64Of(0))]
    /\ last.sets[3] = [environment |-> 1, name |-> "a", object |-> IntegerObj(Int64Of(1))]
    /\ val = [object |-> IntegerObj(Int64Of(1)), ok |-> TRUE]

\* The frames from `e` outward that bind `name`, as positions in the chain.
Binders(e, name) ==
    {k \in 1..Len(Chain(heap, e)) : name \in DOMAIN heap[Chain(heap, e)[k]].store}

\* C14: an Identifier other than `null` evaluates to the value bound to the
\* name in the nearest frame of the environment chain that binds it; when no
\* frame of the chain binds it the result is the Error
\* `Identifier not found: <name>`, whose Inspect for `foobar` is
\* `ERROR: Identifier not found: foobar`.
IdentifierLookup ==
    /\ (last.fn = "evalIdentifierExpression" /\ last.node.Value # "null") =>
         LET name == last.node.Value
             chain == Chain(heap, last.environment)
             binders == Binders(last.environment, name)
         IN  IF binders = {}
             THEN IsErrorWith(last.out, "Identifier not found: " \o name)
             ELSE SameObject(last.out, heap[chain[Min(binders)]].store[name])
    /\ (Finished /\ program = FoobarProgram)
         => /\ isError(val)
            /\ InspectError(val) = "ERROR: Identifier not found: foobar"

\* `foobar` is bound in no frame and evaluates to the Error.
IdentifierLookupWitness ==
    /\ pc = "ret"
    /\ last.fn = "evalIdentifierExpression"
    /\ last.node.Value = "foobar"
    /\ Binders(last.environment, "foobar") = {}
    /\ isError(val)
    /\ InspectError(val) = "ERROR: Identifier not found: foobar"

OuterIf ==
    /\ program \in IfPrograms
    /\ last.fn = "evalIfExpression"
    /\ last.node = program.Statements[1].Expression

\* C16: the consequence of an IfExpression is evaluated exactly when the
\* condition's value is the TRUE singleton; for every other non-error value
\* (FALSE, NULL, any Integer, String or Function) the alternative is
\* evaluated if there is one and otherwise the result is the NULL singleton;
\* the branch not taken is never evaluated (its `let` binds nothing).
IfTruthinessIsIdentityWithTRUE ==
    (last.fn = "evalIfExpression" /\ ~isError(last.condition)) =>
        LET isTrue == SameObject(last.condition, TrueObj)
            hasAlternative == last.node.Alternative.node # "nil"
        IN  /\ last.branch = "Consequence" <=> isTrue
            /\ last.branch = "Alternative" <=> (~isTrue /\ hasAlternative)
            /\ (~isTrue /\ ~hasAlternative) => SameObject(last.out, NULL)
            /\ OuterIf =>
                 /\ "a" \in DOMAIN heap[1].store <=> isTrue
                 /\ "b" \in DOMAIN heap[1].store <=>
                      (/\ ~isTrue
                       /\ last.node.Alternative
                            = Block(<<LetStatement("b", Lit(1))>>))

\* The condition is the Integer 1: the alternative ran (`b` is bound), the
\* consequence did not (`a` is not).
IfTruthinessIsIdentityWithTRUEWitness ==
    /\ OuterIf
    /\ IsInteger(last.condition, 1)
    /\ last.branch = "Alternative"
    /\ "b" \in DOMAIN heap[1].store
    /\ "a" \notin DOMAIN heap[1].store

\* C17: for Integer operands a and b, `+ - * /` yield an Integer with the
\* host's result (the quotient truncated toward zero) and
\* `< <= > >= == !=` yield the TRUE or FALSE singleton of the comparison;
\* any other operator yields the Error
\* `Unsupported operator: INTEGER <op> INTEGER`.
IntegerInfixOperators ==
    (/\ last.fn = "evalInfixExpression"
     /\ last.left.type = "INTEGER"
     /\ last.right.type = "INTEGER")
    => LET a == IntOf(last.left.Value)
           b == IntOf(last.right.Value)
           op == last.node.Operator
           out == last.out
           singleton(value) == SameObject(out, IF value THEN TrueObj ELSE FalseObj)
       IN  CASE op = "+" -> IsInteger(out, a + b)
             [] op = "-" -> IsInteger(out, a - b)
             [] op = "*" -> IsInteger(out, a * b)
             [] op = "/" ->
                  /\ out.type = "INTEGER"
                  /\ \E rem \in -MaxInt..MaxInt :
                        /\ IntOf(out.Value) * b + rem = a
                        /\ (IF b < 0 THEN -rem < -b ELSE rem < b)
                        /\ (IF b < 0 THEN rem < -b ELSE -rem < b)
                        /\ (rem = 0 \/ (rem < 0) = (a < 0))
             [] op = "<" -> singleton(a < b)
             [] op = "<=" -> singleton(a <= b)
             [] op = ">" -> singleton(a > b)
             [] op = ">=" -> singleton(a >= b)
             [] op = "==" -> singleton(a = b)
             [] op = "!=" -> singleton(a # b)
             [] OTHER -> IsErrorWith(out, "Unsupported operator: INTEGER "
                                          \o op \o " INTEGER")

\* C18: two Boolean operands have a result only under `==` and `!=` (the
\* singleton of the equality or inequality of their values), two String
\* operands only under `+` (the String of the left operand's text followed by
\* the right operand's); every other operator yields the Error
\* `Unsupported operator: <TYPE> <op> <TYPE>`: `true + false` yields
\* `Unsupported operator: BOOLEAN + BOOLEAN`.
BooleanAndStringInfixOperators ==
    /\ last.fn = "evalInfixExpression" =>
         LET l == last.left
             r == last.right
             op == last.node.Operator
             out == last.out
             singleton(value) ==
                 SameObject(out, IF value THEN TrueObj ELSE FalseObj)
             unsupported(type) ==
                 IsErrorWith(out, "Unsupported operator: " \o type \o " " \o op
                                  \o " " \o type)
         IN  /\ (l.type = "BOOLEAN" /\ r.type = "BOOLEAN") =>
                  CASE op = "==" -> singleton(l.Value = r.Value)
                    [] op = "!=" -> singleton(l.Value # r.Value)
                    [] OTHER -> unsupported("BOOLEAN")
             /\ (l.type = "STRING" /\ r.type = "STRING") =>
                  CASE op = "+" -> /\ out.type = "STRING"
                                   /\ out.Value = l.Value \o r.Value
                    [] OTHER -> unsupported("STRING")
    /\ (Finished /\ program = ConcatProgram)
         => (val.type = "STRING" /\ val.Value = "foobar")
    /\ (Finished /\ program = TrueFalseProgram)
         => IsErrorWith(val, "Unsupported operator: BOOLEAN + BOOLEAN")

\* "foo" + "bar" has been evaluated.
BooleanAndStringInfixOperatorsWitness ==
    /\ pc = "ret"
    /\ last.fn = "evalInfixExpression"
    /\ SameObject(last.left, StringObj("foo"))
    /\ SameObject(last.right, StringObj("bar"))
    /\ last.node.Operator = "+"
    /\ SameObject(val, StringObj("foobar"))

\* C19: `!` maps TRUE to FALSE, FALSE to TRUE, NULL to TRUE and every other
\* value (any Integer, String, Function) to FALSE, always a singleton; `-`
\* on an Integer yields the negated Integer and on a value of any other type
\* the Error `Unsupported operator: - <TYPE>`.
PrefixOperatorsOnValues ==
    (/\ last.fn = "evalPrefixExpression"
     /\ last.right # Nil
     /\ ~isError(last.right))
    => LET right == last.right
           out == last.out
       IN  /\ last.node.Operator = "!" =>
                 CASE SameObject(right, TrueObj) -> SameObject(out, FalseObj)
                   [] SameObject(right, FalseObj) -> SameObject(out, TrueObj)
                   [] SameObject(right, NULL) -> SameObject(out, TrueObj)
                   [] OTHER -> SameObject(out, FalseObj)
           /\ last.node.Operator = "-" =>
                 IF right.type = "INTEGER"
                 THEN IsInteger(out, 0 - IntOf(right.Value))
                 ELSE IsErrorWith(out, "Unsupported operator: - " \o right.type)

\* -true has been evaluated.
PrefixOperatorsOnValuesWitness ==
    /\ pc = "ret"
    /\ last.fn = "evalPrefixExpression"
    /\ last.node.Operator = "-"
    /\ SameObject(last.right, TrueObj)
    /\ IsErrorWith(val, "Unsupported operator: - BOOLEAN")

\* The programs whose functions apply themselves or each other with no
\* base case.
UnboundedPrograms == {RecursiveProgram, MutualProgram}

\* Eval has returned to its caller or the Go runtime has ended the process.
Stopped == pc \in {"done", "panic", "overflow"}

Level(op) ==
    CASE op \in {<<"=", "=">>, <<"!", "=">>} -> 1
      [] op \in {<<"<">>, <<">">>} -> 2
      [] op \in {<<"+">>, <<"-">>} -> 3
      [] op \in {<<"*">>, <<"/">>} -> 4

\* The rendering of an infix expression from those of its sides.
Infixed(left, op, right) ==
    <<"(">> \o left \o <<" ">> \o op \o <<" ">> \o right \o <<")">>

\* C21: an input of the forms below parses without errors, and its
\* rendering groups `a op1 b op2 c` to the left when op1's level is at least
\* op2's and to the right otherwise, groups a unary operator with its operand
\* alone whatever binary operator is next to it, and keeps a parenthesized
\* group as one operand whatever the levels.
ParserPrecedence ==
    /\ (last.fn = "ParseProgram" /\ env = 1
        /\ last.input \in InfixInputs \cup PrefixInputs \cup GroupInputs)
       => last.errors = <<>>
    /\ (last.fn = "String" /\ env = 1) =>
        /\ \A op1 \in BinaryOperators, op2 \in BinaryOperators :
            /\ last.input = Spaced(<<(<<"a">>), op1, <<"b">>, op2, <<"c">>>>)
               => val = IF Level(op1) >= Level(op2)
                        THEN Infixed(Infixed(<<"a">>, op1, <<"b">>), op2, <<"c">>)
                        ELSE Infixed(<<"a">>, op1, Infixed(<<"b">>, op2, <<"c">>))
            /\ last.input = Spaced(<<(<<"a">>), op1, <<"(", "b">>, op2, <<"c", ")">>>>)
               => val = Infixed(<<"a">>, op1, Infixed(<<"b">>, op2, <<"c">>))
            /\ last.input = Spaced(<<(<<"(", "a">>), op1, <<"b", ")">>, op2, <<"c">>>>)
               => val = Infixed(Infixed(<<"a">>, op1, <<"b">>), op2, <<"c">>)
        /\ \A u \in UnaryOperators, op \in BinaryOperators :
            /\ last.input = u \o Spaced(<<(<<"a">>), op, <<"b">>>>)
               => val = Infixed(<<"(">> \o u \o <<"a", ")">>, op, <<"b">>)
            /\ last.input = Spaced(<<(<<"a">>), op, u \o <<"b">>>>)
               => val = Infixed(<<"a">>, op, <<"(">> \o u \o <<"b", ")">>)

\* `a + b * c` has been parsed and rendered as (a + (b * c)).
ParserPrecedenceWitness ==
    /\ last.fn = "String"
    /\ env = 1
    /\ Str(last.input) = "a + b * c"
    /\ Str(val) = "(a + (b * c))"

\* C22: the rendering of a program parsed without errors parses without
\* errors again, and the program parsed from it renders as the same text.
RenderingIsFixedPoint ==
    /\ (last.fn = "ParseProgram" /\ env = 2) => last.errors = <<>>
    /\ (last.fn = "String" /\ Len(last.outputs) >= 2)
       => last.outputs[2] = last.outputs[1]

\* An int64 of Int64Values as c * 2^63 + d, and the int64 that c * 2^63 + d
\* is modulo 2^64: 2^63 times an even number is 0 modulo 2^64, and adding
\* 2^63 turns the highest bit over.
Sym(x) ==
    CASE x = MaxInt64 -> [c |-> 1, d |-> -1]
      [] x = MinInt64 -> [c |-> -1, d |-> 0]
      [] OTHER -> [c |-> 0, d |-> IntOf(x)]
Wrapped(c, d) ==
    LET low == Int64Of(d)
    IN  IF c % 2 = 0
        THEN low
        ELSE <<low[1], low[2], low[3], (low[4] + 32768) % 65536>>

\* q is the quotient of a by b truncated toward zero: the integers'
\* quotient for operands within 32 bits; otherwise q is zero or has the sign
\* of a / b, and the remainder a - q * b is zero or has the sign of a, and is
\* smaller than b in magnitude.
Truncated(a, b, q) ==
    LET negative(x) == Int64("<", x, Int64Of(0))
        minusAbs(x) == IF negative(x) THEN x ELSE Int64("-", Int64Of(0), x)
        abs(v) == IF v < 0 THEN -v ELSE v
        r == Int64("-", a, Int64("*", q, b))
    IN  IF Small(a) /\ Small(b)
        THEN q = Int64Of((IF (IntOf(a) < 0) = (IntOf(b) < 0) THEN 1 ELSE -1)
                         * (abs(IntOf(a)) \div abs(IntOf(b))))
        ELSE /\ q = Int64Of(0) \/ negative(q) = (negative(a) # negative(b))
             /\ r = Int64Of(0) \/ negative(r) = negative(a)
             /\ Int64("<", minusAbs(b), minusAbs(r))

\* What the operators + - * and unary - yield: an Integer whose value is the
\* result modulo 2^64.
IntegerWraps ==
    LET l == Sym(last.left.Value)
        r == Sym(last.right.Value)
        is(c, d) == last.out.type = "INTEGER" /\ last.out.Value = Wrapped(c, d)
    IN  /\ (last.fn = "evalInfixIntegerOperator" /\ last.operator = "+")
           => is(l.c + r.c, l.d + r.d)
        /\ (last.fn = "evalInfixIntegerOperator" /\ last.operator = "-")
           => is(l.c - r.c, l.d - r.d)
        /\ (last.fn = "evalInfixIntegerOperator" /\ last.operator = "*")
           => is(l.c * r.d + r.c * l.d, l.d * r.d)
        /\ last.fn = "evalMinusOperatorExpression" => is(-r.c, -r.d)

\* C23 as stated: for b # 0, a / b is an Integer, the quotient truncated
\* toward zero; + - * and unary - yield an Integer, the result modulo 2^64.
IntegerHostSemantics ==
    /\ IntegerWraps
    /\ (/\ last.fn = "evalInfixIntegerOperator"
        /\ last.operator = "/"
        /\ last.right.Value # Int64Of(0))
       => /\ last.out.type = "INTEGER"
          /\ Truncated(last.left.Value, last.right.Value, last.out.Value)

\* C23, amended: as stated, except that the quotient wraps too: the least
\* int64 divided by -1 is the least int64.
IntegerHostSemanticsWrapping ==
    /\ IntegerWraps
    /\ (/\ last.fn = "evalInfixIntegerOperator"
        /\ last.operator = "/"
        /\ last.right.Value # Int64Of(0))
       => /\ last.out.type = "INTEGER"
          /\ IF last.left.Value = MinInt64 /\ last.right.Value = Int64Of(-1)
             THEN last.out.Value = MinInt64
             ELSE Truncated(last.left.Value, last.right.Value, last.out.Value)

\* -7 / 2 has yielded -3.
IntegerHostSemanticsWitness ==
    /\ last.fn = "evalInfixIntegerOperator"
    /\ last.operator = "/"
    /\ last.left.Value = Int64Of(-7)
    /\ last.right.Value = Int64Of(2)
    /\ last.out.type = "INTEGER"
    /\ last.out.Value = Int64Of(-3)

\* What is being evaluated on behalf of the pending activation stack[i]:
\* the node Eval was just called on, or the node of the activation above.
Under(i) ==
    IF i = Len(stack)
    THEN node
    ELSE IF stack[i + 1].fn \in {"evalStatement", "evalBlockStatement"}
    THEN BlockStatement(stack[i + 1].statements)
    ELSE stack[i + 1].node
SameNode(a, b) == a.node = b.node /\ a = b
NoError(objects) == \A k \in 1..Len(objects) : ~isError(objects[k])

\* C24: a pending evalCallExpression evaluates the callee first, with no
\* argument evaluated; it evaluates argument k+1 only when the callee and
\* the k arguments before it have been evaluated, in order, to no Error; and
\* the body only when the callee and every argument have.  When it returns
\* at the callee or at an argument, what it returns is the Error evaluated
\* there, and no later argument and no body has been evaluated.
CallArgumentsInOrder ==
    /\ \A i \in 1..Len(stack) :
          stack[i].fn = "evalCallExpression" =>
             LET f == stack[i]
                 evaluating(n) ==
                     (i < Len(stack) \/ pc = "eval") => SameNode(Under(i), n)
             IN  CASE f.at = "Function" ->
                        f.parameters = <<>> /\ evaluating(f.node.Function)
                   [] f.at = "Argument" ->
                        /\ ~isError(f.function)
                        /\ NoError(f.parameters)
                        /\ Len(f.parameters) < Len(f.node.Arguments)
                        /\ evaluating(f.node.Arguments[Len(f.parameters) + 1])
                   [] f.at = "Body" ->
                        /\ ~isError(f.function)
                        /\ NoError(f.parameters)
                        /\ Len(f.parameters) = Len(f.node.Arguments)
                        /\ evaluating(f.function.Body)
    /\ (last.fn = "evalCallExpression" /\ last.at = "Function")
       => /\ isError(last.out)
          /\ SameObject(last.out, last.function)
          /\ last.parameters = <<>>
    /\ (last.fn = "evalCallExpression" /\ last.at = "Argument")
       => /\ isError(last.out)
          /\ ~isError(last.function)
          /\ NoError(last.parameters)
          /\ Len(last.parameters) < Len(last.node.Arguments)

\* A call of two arguments has returned the Error of its first argument.
CallArgumentsInOrderWitness ==
    /\ pc = "ret"
    /\ last.fn = "evalCallExpression"
    /\ last.at = "Argument"
    /\ last.parameters = <<>>
    /\ Len(last.node.Arguments) = 2
    /\ isError(val)
    /\ SameObject(val, last.out)

\* A Boolean object is one of the two singletons.
Singleton(o) ==
    o.type = "BOOLEAN" => (SameObject(o, TrueObj) \/ SameObject(o, FalseObj))

\* C25: every Boolean that Eval returns (wrapped in a ReturnValue or not),
\* that an operator or a call is handed, or that an environment holds is the
\* TRUE or the FALSE singleton; an if-expression whose condition evaluated
\* to a Boolean of value true takes its consequence, and the two programs
\* with a computed and with a bound true condition yield 10.
BooleanSingletons ==
    /\ pc = "ret" => (Singleton(val) /\ (Wrapper(val) => Singleton(val.Value)))
    /\ \A e \in 1..Len(heap) :
          \A name \in DOMAIN heap[e].store : Singleton(heap[e].store[name])
    /\ \A i \in 1..Len(stack) :
          stack[i].fn = "evalCallExpression" =>
             \A k \in 1..Len(stack[i].parameters) :
                Singleton(stack[i].parameters[k])
    /\ (/\ last.fn = "evalIfExpression"
        /\ last.condition.type = "BOOLEAN"
        /\ last.condition.Value)
       => last.branch = "Consequence"
    /\ (Finished /\ program = Scenarios.computedCondition) => IsInteger(val, 10)
    /\ (Finished /\ program = Scenarios.boundCondition) => IsInteger(val, 10)

\* `let t = !(1 > 2); if (t) { 10 } else { 20 }` has taken the consequence
\* on the Boolean read back from the binding.
BooleanSingletonsWitness ==
    /\ program = Scenarios.boundCondition
    /\ last.fn = "evalIfExpression"
    /\ SameObject(last.condition, TrueObj)
    /\ SameObject(heap[1].store["t"], TrueObj)
    /\ last.branch = "Consequence"
    /\ IsInteger(last.out, 10)

\* The frame e holds in the next state exactly the bindings it holds now.
FrameKept(e) ==
    /\ heap'[e].outer = heap[e].outer
    /\ DOMAIN heap'[e].store = DOMAIN heap[e].store
    /\ \A name \in DOMAIN heap[e].store :
          SameObject(heap'[e].store[name], heap[e].store[name])

\* applyFunction is taking its step in evalCallExpression's activation: the
\* activation on top of the stack moves on to the body.
Applies ==
    /\ pc = "ret"
    /\ stack # <<>>
    /\ Top.fn = "evalCallExpression"
    /\ Top.at # "Body"
    /\ Len(stack') = Len(stack)
    /\ stack'[Len(stack)].at = "Body"

\* C26: applyFunction allocates one frame, binds in it the parameters to the
\* arguments and nothing else, and keeps every frame there was; from then
\* until the call has returned, no step changes a frame that existed before
\* the call, and a `let` that returns directly in the body has bound in the
\* call's frame.  `let f = fn(x) { let a = 1; x }; f(2); a` ends with
\* `Identifier not found: a`, the global frame holding f alone.
CallKeepsCallerFrames ==
    /\ [][/\ Applies =>
               LET f == stack'[Len(stack)]
               IN  /\ Len(heap') = Len(heap) + 1
                   /\ f.enclosingEnvironment = Len(heap')
                   /\ \A e \in 1..Len(heap) : FrameKept(e)
                   /\ DOMAIN heap'[Len(heap')].store
                        = {f.function.Parameters[k] : k \in 1..Len(f.parameters)}
                   /\ \A k \in 1..Len(f.parameters) :
                         (\A j \in (k + 1)..Len(f.parameters) :
                             f.function.Parameters[j] # f.function.Parameters[k])
                         => SameObject(heap'[Len(heap')].store[f.function.Parameters[k]],
                                       f.parameters[k])
          /\ \A i \in 1..Len(stack) :
               (stack[i].fn = "evalCallExpression" /\ stack[i].at = "Body")
               => \A e \in 1..(stack[i].enclosingEnvironment - 1) : FrameKept(e)
          /\ \A i \in 1..Len(stack) :
               (/\ stack[i].fn = "evalCallExpression"
                /\ stack[i].at = "Body"
                /\ Len(stack) = i + 2
                /\ stack[i + 1].fn = "evalBlockStatement"
                /\ Top.fn = "LetStatement"
                /\ pc = "ret")
               => /\ Top.environment = stack[i].enclosingEnvironment
                  /\ \A e \in 1..Len(heap) \ {stack[i].enclosingEnvironment} :
                        FrameKept(e)]_vars
    /\ []((Finished /\ program = Scenarios.leak)
          => /\ IsErrorWith(val, "Identifier not found: a")
             /\ DOMAIN heap[1].store = {"f"}
             /\ DOMAIN heap[2].store = {"x", "a"})

\* `let f = fn(x) { let a = 1; x }; f(2); a` has ended: the call's frame
\* holds x and a, the global frame does not hold a.
CallKeepsCallerFramesWitness ==
    /\ Finished
    /\ program = Scenarios.leak
    /\ "a" \in DOMAIN heap[2].store
    /\ "a" \notin DOMAIN heap[1].store
    /\ IsErrorWith(val, "Identifier not found: a")

\* C27: what Eval of a Program returns is never a ReturnValue object.
ProgramResultNeverReturnValue == Finished => ~Wrapper(val)

\* C28: evalInfixExpression does not evaluate the right operand when the
\* left operand's value is an Error, and returns that Error.
LeftErrorSkipsRight ==
    /\ \A i \in 1..Len(stack) :
          (stack[i].fn = "evalInfixExpression" /\ stack[i].at = "Right")
          => ~isError(stack[i].left)
    /\ (last.fn = "evalInfixExpression" /\ isError(last.left))
       => SameObject(last.out, last.left)
    /\ program = Scenarios.leftError => pc # "panic"

\* C29: the block of an if-expression is evaluated in the environment the
\* if-expression is evaluated in, and so is a `let` directly in the block:
\* when it returns, no frame has been added and the if-expression's frame
\* holds the name bound to the value.  `let a = 1; if (true) { let a = 2; } a`
\* yields 2 with a single frame.
IfBlockSharesFrame ==
    /\ \A i \in 1..Len(stack) :
          (stack[i].fn = "evalIfExpression" /\ stack[i].at = "Branch") =>
             IF i = Len(stack)
             THEN pc = "eval" => env = stack[i].environment
             ELSE /\ stack[i + 1].fn = "evalBlockStatement"
                  /\ stack[i + 1].environment = stack[i].environment
                  /\ (i + 2 <= Len(stack) /\ stack[i + 2].fn = "LetStatement")
                     => stack[i + 2].environment = stack[i].environment
    /\ (/\ pc = "ret"
        /\ last.fn = "LetStatement"
        /\ ~isError(last.value)
        /\ Len(stack) >= 2
        /\ Top.fn = "evalBlockStatement"
        /\ stack[Len(stack) - 1].fn = "evalIfExpression")
       => LET frame == stack[Len(stack) - 1].environment
          IN  /\ last.environment = frame
              /\ Len(heap) = Len(last.before)
              /\ last.node.Name \in DOMAIN heap[frame].store
              /\ SameObject(heap[frame].store[last.node.Name], last.value)
    /\ (Finished /\ program = Scenarios.ifScope)
       => /\ IsInteger(val, 2)
          /\ Len(heap) = 1
          /\ IsInteger(heap[1].store["a"], 2)

\* `let a = 1; if (true) { let a = 2; } a` has ended with 2.
IfBlockSharesFrameWitness ==
    /\ Finished
    /\ program = Scenarios.ifScope
    /\ IsInteger(val, 2)
    /\ IsInteger(heap[1].store["a"], 2)

\* C30: Inspect of an object of any variant comes to an end with a string;
\* the calls it makes never exhaust the stack.
InspectReturnsString ==
    pc = "overflow" => val.type # "RETURN_VALUE"

====
